---- MODULE Spec2Model ----
(***************************************************************************)
(* ts-cpp-bridge: the struct marshalling code that CppGenerator emits      *)
(* (FromNapi / ToNapi) and the asynchronous N-API bridge                   *)
(* (AsyncWorker + Promise::Deferred) of the generated addon.               *)
(*                                                                         *)
(* Native and boundary values are cells.  A native cell is [v, a]: v is    *)
(* the scalar payload, a the vector payload.  Strings are numbered         *)
(* (0 is the empty string), bool is 0/1.  A boundary cell is [k, v, a]     *)
(* with k the Napi value kind.                                             *)
(***************************************************************************)
EXTENDS Integers, Sequences, FiniteSets, TLC

VARIABLES
  \* marshalling of one struct value
  schema, x, obj, dflt, y, mphase,
  \* the addon at run time: one entry per bridge call
  nextId,      \* bridge calls made so far
  callee,      \* the export each call entered
  args,        \* the caller's own argument value, which it may change later
  argAt,       \* the argument as it was when the call was made
  status,      \* where the call and its worker stand
  input_,      \* AsyncWorker::input_
  result_,     \* AsyncWorker::result_
  error_,      \* AsyncWorker error set by SetError (0: none)
  passed,      \* what Execute handed to the external function
  deferred,    \* the Promise::Deferred of the call
  log,         \* the steps taken for the call, with the thread that took them
  mainWaiting, \* the call the calling thread is blocked on (0: none)
  syncResult,  \* what the last synchronous bridge call returned
  \* one project and its output directory, over the runs of the generator
  sourceClasses, \* the class declarations of the input files
  parseOutput, \* what the last run extracted, with the warnings it printed
  files,       \* the output directory: file name -> lines
  runs,        \* runs of the generator that went through, so far
  requested,   \* the input files the command line names, each there or not
  unreadable,  \* the templates that cannot be read
  lastRun,     \* exit code and console lines of the last run (code -1: none)
  \* one decorated class and the metadata reflect-metadata keeps for it
  design,      \* design:paramtypes and design:returntype of each method
  metadata,    \* <<metadata key, target, property>> -> the value defined
  allExports   \* what the last getAllExports(Solver) returned

mvars == <<schema, x, obj, dflt, y, mphase>>

rvars == <<nextId, callee, args, argAt, status, input_, result_, error_,
           passed, deferred, log, mainWaiting, syncResult>>

gvars == <<sourceClasses, parseOutput, files, runs, requested, unreadable, lastRun>>

dvars == <<design, metadata, allExports>>

vars == <<mvars, rvars, gvars, dvars>>

\* ------------------------------------------------------------------ bounds
MaxFields == 2
MaxArrayLen == 2
MaxCalls == 2

\* ------------------------------------------------------------- type mapper
TsTypes == {"string", "number", "boolean", "i32", "int", "Inner"}

\* numeric-types.ts: the precision-qualified numeric types
PreciseNumericTypes ==
  {"i8", "u8", "i16", "u16", "i32", "u32", "i64", "u64", "f32", "f64"}

\* numeric-types.ts getCppType: TypeMapping on the type texts that name no
\* container, and the one Map text of this model
getCppType(tsType) ==
  CASE tsType = "Map<string, number>" -> "std::unordered_map<std::string, double>"
    [] tsType = "string"  -> "std::string"
    [] tsType = "number"  -> "double"
    [] tsType = "boolean" -> "bool"
    [] tsType = "i8"      -> "int8_t"
    [] tsType = "u8"      -> "uint8_t"
    [] tsType = "i16"     -> "int16_t"
    [] tsType = "u16"     -> "uint16_t"
    [] tsType = "i32"     -> "int32_t"
    [] tsType = "u32"     -> "uint32_t"
    [] tsType = "i64"     -> "int64_t"
    [] tsType = "u64"     -> "uint64_t"
    [] tsType = "f32"     -> "float"
    [] tsType = "f64"     -> "double"
    [] OTHER              -> tsType

\* numeric-types.ts NapiTypeMapping, through getNapiType
getNapiType(tsType) ==
  CASE tsType = "string"           -> "String"
    [] tsType = "boolean"          -> "Boolean"
    [] tsType \in {"i64", "u64"}   -> "BigInt"
    [] tsType \in {"number"} \cup PreciseNumericTypes -> "Number"
    [] OTHER                       -> "Value"

\* numeric-types.ts NapiExtractorMapping, through getNapiExtractor
getNapiExtractor(tsType) ==
  CASE tsType = "string"             -> ".As<Napi::String>().Utf8Value()"
    [] tsType = "boolean"            -> ".As<Napi::Boolean>().Value()"
    [] tsType \in {"number", "f64"}  -> ".As<Napi::Number>().DoubleValue()"
    [] tsType \in {"i8", "i16", "i32"} -> ".As<Napi::Number>().Int32Value()"
    [] tsType \in {"u8", "u16", "u32"} -> ".As<Napi::Number>().Uint32Value()"
    [] tsType = "i64"                -> ".As<Napi::BigInt>().Int64Value()"
    [] tsType = "u64"                -> ".As<Napi::BigInt>().Uint64Value()"
    [] tsType = "f32"                -> ".As<Napi::Number>().FloatValue()"
    [] OTHER                         -> ".As<Napi::Value>()"

mapTypeScriptToCpp(tsType) ==
  LET mappedType == getCppType(tsType) IN
  IF mappedType = tsType
    THEN (CASE tsType = "number" -> "int"
            [] tsType = "void"   -> "void"
            [] OTHER             -> tsType)
    ELSE mappedType

FieldNames == {"name", "int"}

\* ParsedField after parseField: name, mapped C++ type, isArray
Fields ==
  { [name |-> n, type |-> mapTypeScriptToCpp(t), isArray |-> b] :
      n \in FieldNames, t \in TsTypes, b \in BOOLEAN }

\* A vector of a struct type has no emitted element conversion that the
\* backend compiler accepts (Napi::Number::New of a struct), so such a schema
\* never yields a running addon.
Compiles(f) == ~(f.isArray /\ f.type = "Inner")

SeqsUpTo(S, n) == UNION { [1..k -> S] : k \in 0..n }

\* ParsedStruct.fields: field names are unique within a class
Schemas ==
  { s \in SeqsUpTo({f \in Fields : Compiles(f)}, MaxFields) :
      /\ Len(s) >= 1
      /\ \A i, j \in 1..Len(s) : i # j => s[i].name # s[j].name }

Names(s) == { s[i].name : i \in 1..Len(s) }

FieldOf(s, n) == CHOOSE f \in { s[i] : i \in 1..Len(s) } : f.name = n

\* ------------------------------------------------------------ native values
ScalarValues(type) ==
  IF type \in {"std::string", "bool"} THEN {0, 1} ELSE {0, 7}

Scalar(v) == [v |-> v, a |-> << >>]
Vector(a) == [v |-> 0, a |-> a]

FieldValues(f) ==
  IF f.isArray
    THEN { Vector(a) : a \in SeqsUpTo(ScalarValues(f.type), MaxArrayLen) }
    ELSE { Scalar(v) : v \in ScalarValues(f.type) }

StructValues(s) ==
  { r \in [Names(s) -> UNION { FieldValues(s[i]) : i \in 1..Len(s) }] :
      \A n \in Names(s) : r[n] \in FieldValues(FieldOf(s, n)) }

\* `S result;` : std::string and std::vector members are value-initialised,
\* members of builtin type are left indeterminate.
DefaultFieldValues(f) ==
  IF f.isArray THEN { Vector(<< >>) }
  ELSE IF f.type = "std::string" THEN { Scalar(0) }
  ELSE { Scalar(v) : v \in ScalarValues(f.type) }

DefaultStructs(s) ==
  { r \in [Names(s) -> UNION { DefaultFieldValues(s[i]) : i \in 1..Len(s) }] :
      \A n \in Names(s) : r[n] \in DefaultFieldValues(FieldOf(s, n)) }

\* ---------------------------------------------------------- boundary values
BString(v)  == [k |-> "String",  v |-> v, a |-> << >>]
BNumber(v)  == [k |-> "Number",  v |-> v, a |-> << >>]
BBoolean(v) == [k |-> "Boolean", v |-> v, a |-> << >>]
BObject(v)  == [k |-> "Object",  v |-> v, a |-> << >>]
BArray(a)   == [k |-> "Array",   v |-> 0, a |-> a]

\* Napi::Number::Int32Value is ToInt32 of the number.  The numbers of this
\* model are the checker's integers, which are exactly the 32-bit signed
\* range, so ToInt32 maps each of them to itself; what can fail is the kind.
Int32Value(n) == n

\* The value a frontend caller holds for a field of the struct's interface
CallerValue(type, v) ==
  CASE type = "std::string" -> BString(v)
    [] type = "bool"        -> BBoolean(v)
    [] type = "Inner"       -> BObject(v)
    [] OTHER                -> BNumber(v)

CallerObject(s, val) ==
  [ n \in Names(s) |->
      LET f == FieldOf(s, n) IN
      IF f.isArray
        THEN BArray([ i \in 1..Len(val[n].a) |-> CallerValue(f.type, val[n].a[i]) ])
        ELSE CallerValue(f.type, val[n].v) ]

Restrict(o, keys) == [ n \in keys |-> o[n] ]

NoObj == [ n \in {} |-> BNumber(0) ]
NoVal == [ok |-> TRUE, val |-> [ n \in {} |-> Scalar(0) ]]

\* -------------------------------------------- emitted FromNapi and ToNapi
\* The element types for which generateStructsImpl emits a conversion
Handled == {"std::string", "int", "bool"}

ExtractorKind(type) ==
  CASE type = "std::string" -> "String"
    [] type = "int"         -> "Number"
    [] type = "bool"        -> "Boolean"

\* .As<Napi::T>().XValue(): fails on a value of another kind
Extracts(type, c) == c.k = ExtractorKind(type)

Extracted(type, c) == IF type = "int" THEN Int32Value(c.v) ELSE c.v

\* The statements emitted for one field of FromNapi, run on boundary object o
\* with the member holding dv; ok = FALSE when an extractor throws.
FieldFromNapi(f, o, dv) ==
  IF f.isArray
    THEN IF f.name \in DOMAIN o /\ o[f.name].k = "Array"
           THEN LET arr == o[f.name].a IN
                IF f.type \in Handled
                  THEN [ok   |-> \A i \in 1..Len(arr) : Extracts(f.type, arr[i]),
                        cell |-> Vector(dv.a \o [ i \in 1..Len(arr) |->
                                                   Extracted(f.type, arr[i]) ])]
                  ELSE [ok |-> TRUE, cell |-> dv]
           ELSE [ok |-> TRUE, cell |-> dv]
    ELSE IF f.name \in DOMAIN o
           THEN IF f.type \in Handled
                  THEN [ok   |-> Extracts(f.type, o[f.name]),
                        cell |-> Scalar(Extracted(f.type, o[f.name]))]
                  ELSE [ok |-> TRUE, cell |-> dv]
           ELSE [ok |-> TRUE, cell |-> dv]

\* S::FromNapi(obj), d being the default-initialised `S result;`
FromNapi(s, o, d) ==
  [ok  |-> \A n \in Names(s) : FieldFromNapi(FieldOf(s, n), o, d[n]).ok,
   val |-> [ n \in Names(s) |-> FieldFromNapi(FieldOf(s, n), o, d[n]).cell ]]

\* The fields for which ToNapi emits an obj.Set
ToNapiSets(f) == f.isArray \/ f.type \in Handled

ToNapiValue(f, c) ==
  IF f.isArray
    THEN BArray([ i \in 1..Len(c.a) |->
                    IF f.type = "std::string" THEN BString(c.a[i])
                                              ELSE BNumber(c.a[i]) ])
    ELSE CASE f.type = "std::string" -> BString(c.v)
           [] f.type = "int"         -> BNumber(c.v)
           [] f.type = "bool"        -> BBoolean(c.v)

\* S::ToNapi(env)
ToNapi(s, val) ==
  [ n \in { m \in Names(s) : ToNapiSets(FieldOf(s, m)) } |->
      ToNapiValue(FieldOf(s, n), val[n]) ]

\* ------------------------------------------------ the generated addon
Ids == 1..MaxCalls

Field(n, t, arr) == [name |-> n, type |-> t, isArray |-> arr]

InputDataSchema ==
  << Field("name", "std::string", FALSE), Field("value", "double", FALSE),
     Field("numbers", "double", TRUE) >>

OutputDataSchema ==
  << Field("greeting", "std::string", FALSE), Field("doubled", "double", FALSE),
     Field("squared", "double", TRUE) >>

LongTaskSchema ==
  << Field("duration", "double", FALSE), Field("data", "std::string", FALSE) >>

TaskResultSchema ==
  << Field("message", "std::string", FALSE), Field("duration", "double", FALSE),
     Field("timestamp", "double", FALSE) >>

AsyncExports == {"Solver_processLongTask", "Solver_processHeavyComputation"}

ParamSchema(e) ==
  IF e = "Solver_processLongTask" THEN LongTaskSchema ELSE InputDataSchema

ReturnSchema(e) ==
  IF e = "Solver_processLongTask" THEN TaskResultSchema ELSE OutputDataSchema

\* `LongTask result;` and `InputData result;` in FromNapi
LongTaskDefaults == DefaultStructs(LongTaskSchema)
InputDataDefaults == DefaultStructs(InputDataSchema)

ParamDefaults(e) ==
  IF e = "Solver_processLongTask" THEN LongTaskDefaults ELSE InputDataDefaults

\* generated_structs.cpp, the FromNapi bodies of the addon's four structs:
\* every member is read when its key is present (Utf8Value for std::string,
\* DoubleValue for double); an extractor failure is rethrown as
\* std::runtime_error (ok = FALSE).
RtFieldFromNapi(f, o, dv) ==
  LET kind == IF f.type = "std::string" THEN "String" ELSE "Number" IN
  IF f.isArray
    THEN IF f.name \in DOMAIN o /\ o[f.name].k = "Array"
           THEN LET arr == o[f.name].a IN
                [ok   |-> \A i \in 1..Len(arr) : arr[i].k = kind,
                 cell |-> Vector(dv.a \o [ i \in 1..Len(arr) |-> arr[i].v ])]
           ELSE [ok |-> TRUE, cell |-> dv]
    ELSE IF f.name \in DOMAIN o
           THEN [ok |-> o[f.name].k = kind, cell |-> Scalar(o[f.name].v)]
           ELSE [ok |-> TRUE, cell |-> dv]

RtFromNapi(s, o, d) ==
  [ok  |-> \A n \in Names(s) : RtFieldFromNapi(FieldOf(s, n), o, d[n]).ok,
   val |-> [ n \in Names(s) |-> RtFieldFromNapi(FieldOf(s, n), o, d[n]).cell ]]

\* implementation.cpp.  Texts are numbered: "Completed task: <data> ..." is
\* text 10 + data, and so on; clock readings are not modelled.
Solver_processLongTask(in) ==
  [ n \in Names(TaskResultSchema) |->
      CASE n = "message"   -> Scalar(10 + in["data"].v)
        [] n = "duration"  -> Scalar(in["duration"].v)
        [] n = "timestamp" -> Scalar(0) ]

HeavyRounds == 1000
HeavyMod == 10000

\* for (j = 0; j < 1000; j++) heavy_result = (heavy_result * 2 + 1) % 10000;
\* The test h < 0 never holds: it only makes the evaluator compute h before
\* it goes on, and the rounds are run in blocks of 50 to keep its stack small.
RECURSIVE HeavyRepeat(_, _)
HeavyRepeat(h, j) ==
  IF j = 0 \/ h < 0 THEN h ELSE HeavyRepeat((h * 2 + 1) % HeavyMod, j - 1)

RECURSIVE HeavyBlocks(_, _)
HeavyBlocks(h, b) ==
  IF b = 0 \/ h < 0 THEN h ELSE HeavyBlocks(HeavyRepeat(h, 50), b - 1)

\* The loop's result for the small numbers the callers pass, computed once
HeavyTable == [ h \in 0..9 |-> HeavyBlocks(h, HeavyRounds \div 50) ]

HeavyLoop(h) == HeavyTable[h]

Solver_processHeavyComputation(in) ==
  [ n \in Names(OutputDataSchema) |->
      CASE n = "greeting" -> Scalar(20 + in["name"].v)
        [] n = "doubled"  -> Scalar(in["value"].v * in["value"].v + in["value"].v)
        [] n = "squared"  ->
             Vector([ i \in 1..Len(in["numbers"].a) |->
                        HeavyLoop(in["numbers"].a[i]) ]) ]

Solver_process(in) ==
  [ n \in Names(OutputDataSchema) |->
      CASE n = "greeting" -> Scalar(30 + in["name"].v)
        [] n = "doubled"  -> Scalar(in["value"].v * 2)
        [] n = "squared"  ->
             Vector([ i \in 1..Len(in["numbers"].a) |->
                        in["numbers"].a[i] * in["numbers"].a[i] ]) ]

External(e, in) ==
  IF e = "Solver_processLongTask" THEN Solver_processLongTask(in)
                                  ELSE Solver_processHeavyComputation(in)

\* ---- values crossing the boundary in a call
Arg(o)    == [isObject |-> TRUE,  o |-> o]
NotObject == [isObject |-> FALSE, o |-> NoObj]

JsNull      == [kind |-> "null",   o |-> NoObj]
JsObject(o) == [kind |-> "object", o |-> o]
\* Napi::Error made from a message
JsError(m)  == [kind |-> "error",  o |-> [ n \in {"message"} |-> BString(m) ]]
NoValue     == [kind |-> "none",   o |-> NoObj]

ExceptionText == 1
InvalidArgsText == 2

\* What the caller of call i may pass to export e
CallerArgs(e, i) ==
  IF e = "Solver_processLongTask"
    THEN { NotObject,
           Arg([ n \in {"duration", "data"} |->
                   IF n = "data" THEN BString(i) ELSE BNumber(i) ]),
           Arg([ n \in {"duration", "data"} |-> BNumber(i) ]) }
    ELSE { Arg([ n \in {"name", "value", "numbers"} |->
                   CASE n = "name"    -> BString(i)
                     [] n = "value"   -> BNumber(7)
                     [] n = "numbers" -> BArray(<< BNumber(i), BNumber(2) >>) ]) }

\* The caller overwrites the texts of its own object with text 9
Overwritten(a) ==
  [a EXCEPT !.o = [ n \in DOMAIN a.o |->
                      IF a.o[n].k = "String" THEN BString(9) ELSE a.o[n] ]]

\* What a caller may pass to the synchronous export Solver_process
SyncArgs ==
  { NotObject,
    Arg([ n \in {"name", "value", "numbers"} |->
            CASE n = "name"    -> BString(1)
              [] n = "value"   -> BNumber(7)
              [] n = "numbers" -> BArray(<< BNumber(1), BNumber(2) >>) ]),
    Arg([ n \in {"name"} |-> BNumber(7) ]) }

\* ---- the wrapper's Promise
NoDeferred ==
  [created |-> FALSE, state |-> "none", resolves |-> 0, rejects |-> 0,
   value |-> NoValue]

\* Napi::Promise::Deferred::New
NewDeferred == [NoDeferred EXCEPT !.created = TRUE, !.state = "pending"]

\* deferred.Resolve / deferred.Reject; a promise keeps its first settlement
Settle(d, op) ==
  [d EXCEPT !.state    = IF d.state = "pending"
                           THEN (IF op.op = "Resolve" THEN "resolved" ELSE "rejected")
                           ELSE @,
            !.value    = IF d.state = "pending" THEN op.v ELSE @,
            !.resolves = IF op.op = "Resolve" THEN @ + 1 ELSE @,
            !.rejects  = IF op.op = "Reject" THEN @ + 1 ELSE @]

RECURSIVE SettleAll(_, _)
SettleAll(d, ops) ==
  IF ops = << >> THEN d ELSE SettleAll(Settle(d, Head(ops)), Tail(ops))

\* (mutation) the lambda with its first `else` lost: an error argument is
\* rejected and then falls into the second if/else
CallbackOps_NoElse(info) ==
  (IF Len(info) > 0 /\ info[1].kind # "null"
     THEN << [op |-> "Reject", v |-> info[1]] >> ELSE << >>)
  \o (IF Len(info) > 1
       THEN << [op |-> "Resolve", v |-> info[2]] >>
       ELSE << [op |-> "Reject", v |-> JsError(InvalidArgsText)] >>)

\* (mutation) the lambda with the success branch left empty
CallbackOps_DropResolve(info) ==
  IF Len(info) > 0 /\ info[1].kind # "null"
    THEN << [op |-> "Reject", v |-> info[1]] >>
    ELSE << >>

\* The lambda handed to the worker as its callback: what it does to the
\* captured deferred when called with info
CallbackOps(info) ==
  IF Len(info) > 0 /\ info[1].kind # "null"
    THEN << [op |-> "Reject", v |-> info[1]] >>
    ELSE IF Len(info) > 1
      THEN << [op |-> "Resolve", v |-> info[2]] >>
      ELSE << [op |-> "Reject", v |-> JsError(InvalidArgsText)] >>

\* (mutation) one deferred kept in a global and shared by every call
CapturedDeferred_Shared(i) == 1

\* The deferred captured by the lambda of call i
CapturedDeferred(i) == i

\* (mutation) the worker queued before the Promise is made
WrapperSteps_QueueFirst ==
  << "Function::New", "new AsyncWorker", "Queue", "Deferred::New" >>

\* The order of the wrapper's steps once the input is deserialised
WrapperSteps == << "Deferred::New", "Function::New", "new AsyncWorker", "Queue" >>

\* (mutation) the `return env.Null()` after the TypeError is lost: the wrapper
\* goes on to make the Promise and queue the worker
RejectedSteps_NoReturn ==
  << "TypeError", "Deferred::New", "Function::New", "new AsyncWorker", "Queue" >>

\* The steps of the wrapper when argument 0 is missing or no object:
\* ThrowAsJavaScriptException, then return env.Null()
RejectedSteps == << "TypeError" >>

\* (mutation) the wrapper waits for its worker's Execute before it returns
WrapperWaitsFor_Execute(i) == i

\* After worker->Queue() the wrapper returns deferred.Promise(): it waits for
\* no call
WrapperWaitsFor(i) == 0

\* OnOK: Callback().Call({Env().Null(), result_.ToNapi(Env())})
OnOKArgs(i) == << JsNull, JsObject(ToNapi(ReturnSchema(callee[i]), result_[i])) >>

\* Napi::AsyncWorker::OnError, not overridden: Callback().Call({e.Value()})
OnErrorArgs(i) == << JsError(error_[i]) >>

\* (mutation) the worker keeps the caller's object instead of a copy of the
\* deserialised struct, and reads it when Execute runs
ExecuteInput_Alias(i) ==
  RtFromNapi(ParamSchema(callee[i]), args[i].o, input_[i]).val

\* Execute: the struct handed to the external function is the member input_
ExecuteInput(i) == input_[i]

By(thread, ops) == [ k \in 1..Len(ops) |-> [op |-> ops[k], th |-> thread] ]

\* ---- the facade of the synchronous export (generated_api.ts)
\* `return input as any`
toInputDataNative(input) == input

\* `return input as any`
fromOutputDataNative(input) == input

\* What a frontend caller passes to Solver.process: an InputData
FacadeInputs ==
  { Arg([ n \in {"name", "value", "numbers"} |->
            CASE n = "name"    -> BString(1)
              [] n = "value"   -> BNumber(7)
              [] n = "numbers" -> BArray([ k \in 1..Len(ns) |-> BNumber(ns[k]) ]) ]) :
      ns \in { << 1, 2, 3, 4, 5 >> } }

\* Solver.process: the arguments of its call of addon.Solver_process
FacadeArguments(input) == << toInputDataNative(input) >>

\* The addon entry point Solver.process calls
FacadeEntryPoint == "Solver_process"

\* ------------------------------------------------- the addon, as a machine
Unset == [ n \in {} |-> Scalar(0) ]

\* No synchronous bridge call made yet
NoSyncResult ==
  [outcome |-> "none", value |-> NoValue, arg |-> NotObject, steps |-> << >>,
   via |-> "none", entry |-> "", argc |-> 0]

\* Solver_process_wrapper run on argument a, with `InputData result;` holding
\* d and the external function throwing a std::exception or not.  The wrapper
\* has no handler of its own, and the callback wrapper of the binding turns
\* only a Napi::Error into a JavaScript exception: a std::runtime_error from
\* FromNapi or from the external function leaves the wrapper uncaught.
Solver_process_wrapper(a, d, throws) ==
  LET r == RtFromNapi(InputDataSchema, a.o, d) IN
  IF ~a.isObject
    THEN [outcome |-> "TypeError", value |-> JsNull, arg |-> a,
          steps |-> << "TypeError" >>]
  ELSE IF ~r.ok
    THEN [outcome |-> "fault", value |-> NoValue, arg |-> a,
          steps |-> << "FromNapi" >>]
  ELSE IF throws
    THEN [outcome |-> "fault", value |-> NoValue, arg |-> a,
          steps |-> << "FromNapi", "Solver_process" >>]
  ELSE [outcome |-> "returned",
        value |-> JsObject(ToNapi(OutputDataSchema, Solver_process(r.val))),
        arg |-> a,
        steps |-> << "FromNapi", "Solver_process", "ToNapi" >>]

RuntimeStart ==
  /\ nextId = 0
  /\ callee = [ i \in Ids |-> "" ]
  /\ args = [ i \in Ids |-> NotObject ]
  /\ argAt = [ i \in Ids |-> NotObject ]
  /\ status = [ i \in Ids |-> "unused" ]
  /\ input_ = [ i \in Ids |-> Unset ]
  /\ result_ = [ i \in Ids |-> Unset ]
  /\ error_ = [ i \in Ids |-> 0 ]
  /\ passed = [ i \in Ids |-> Unset ]
  /\ deferred = [ i \in Ids |-> NoDeferred ]
  /\ log = [ i \in Ids |-> << >> ]
  /\ mainWaiting = 0
  /\ syncResult = NoSyncResult

MarshalOff ==
  /\ schema = << >>
  /\ x = Unset
  /\ obj = NoObj
  /\ dflt = Unset
  /\ y = NoVal
  /\ mphase = "off"

\* No generator run, nothing on disk
NoParseResult == [structs |-> << >>, exports |-> << >>, warnings |-> << >>]

NoFiles == [ n \in {} |-> << >> ]

NoRun == [code |-> -1, errors |-> << >>, warnings |-> << >>]

\* One input file, which is there
OneInputFile == << [path |-> "types.ts", exists |-> TRUE] >>

GeneratorOff ==
  /\ sourceClasses = << >>
  /\ parseOutput = NoParseResult
  /\ files = NoFiles
  /\ runs = 0
  /\ requested = OneInputFile
  /\ unreadable = {}
  /\ lastRun = NoRun

\* ---- the decorated class
\* class Solver { process(..) {..}  run(..) {..}  static create(..) {..} }:
\* a method decorator gets the prototype as the target of an instance method
\* and the constructor as the target of a static one
Members ==
  { << "prototype", "process" >>, << "prototype", "run" >>,
    << "constructor", "create" >> }

\* Object.getOwnPropertyNames(Solver.prototype)
PrototypeNames == << "constructor", "process", "run" >>

\* No design types emitted for a method
NoDesign == [paramtypes |-> << >>, returntype |-> "undefined"]

NoMetadata == [ k \in {} |-> [name |-> "", paramType |-> "", returnType |-> "",
                               isAsync |-> FALSE] ]

DecoratorsOff ==
  /\ design = [ m \in Members |-> NoDesign ]
  /\ metadata = NoMetadata
  /\ allExports = << >>

Init == MarshalOff /\ RuntimeStart /\ GeneratorOff /\ DecoratorsOff

\* The calling thread runs one handler at a time, and none while it waits
MainFree == mainWaiting = 0

\* Name_wrapper of an asynchronous export, argument 0 missing or no object:
\* TypeError thrown, env.Null() returned
AsyncCallTypeError(e, a) ==
  /\ MainFree
  /\ nextId < MaxCalls
  /\ ~a.isObject
  /\ LET i == nextId + 1 IN
       /\ a \in CallerArgs(e, i)
       /\ nextId' = i
       /\ callee' = [callee EXCEPT ![i] = e]
       /\ args' = [args EXCEPT ![i] = a]
       /\ argAt' = [argAt EXCEPT ![i] = a]
       /\ status' = [status EXCEPT ![i] = "typeerror"]
       /\ log' = [log EXCEPT ![i] = By("main", RejectedSteps)]
       /\ deferred' = [deferred EXCEPT ![i] =
                         IF \E k \in 1..Len(RejectedSteps) :
                              RejectedSteps[k] = "Deferred::New"
                           THEN NewDeferred ELSE @]
  /\ UNCHANGED <<mvars, gvars, dvars, input_, result_, error_, passed,
                 mainWaiting, syncResult>>

\* Name_wrapper of an asynchronous export, FromNapi throws: the wrapper has no
\* handler, the std::runtime_error leaves it before any Promise exists
AsyncCallFault(e, a) ==
  /\ MainFree
  /\ nextId < MaxCalls
  /\ a.isObject
  /\ LET i == nextId + 1 IN
       /\ a \in CallerArgs(e, i)
       /\ \E d \in ParamDefaults(e) :
            ~RtFromNapi(ParamSchema(e), a.o, d).ok
       /\ nextId' = i
       /\ callee' = [callee EXCEPT ![i] = e]
       /\ args' = [args EXCEPT ![i] = a]
       /\ argAt' = [argAt EXCEPT ![i] = a]
       /\ status' = [status EXCEPT ![i] = "fault"]
       /\ log' = [log EXCEPT ![i] = By("main", << "FromNapi throws" >>)]
  /\ UNCHANGED <<mvars, gvars, dvars, input_, result_, error_, passed, deferred,
                 mainWaiting, syncResult>>

\* Name_wrapper of an asynchronous export, the whole handler: deserialise,
\* create the Promise and its callback, construct the worker with a copy of
\* the input, queue it, return the Promise
AsyncCallQueue(e, a) ==
  /\ MainFree
  /\ nextId < MaxCalls
  /\ a.isObject
  /\ LET i == nextId + 1 IN
       /\ a \in CallerArgs(e, i)
       /\ \E d \in ParamDefaults(e) :
            LET r == RtFromNapi(ParamSchema(e), a.o, d) IN
              /\ r.ok
              /\ input_' = [input_ EXCEPT ![i] = r.val]
       /\ nextId' = i
       /\ callee' = [callee EXCEPT ![i] = e]
       /\ args' = [args EXCEPT ![i] = a]
       /\ argAt' = [argAt EXCEPT ![i] = a]
       /\ deferred' = [deferred EXCEPT ![i] = NewDeferred]
       /\ status' = [status EXCEPT ![i] = "queued"]
       /\ log' = [log EXCEPT ![i] = By("main", WrapperSteps)]
       /\ mainWaiting' = WrapperWaitsFor(i)
  /\ UNCHANGED <<mvars, gvars, dvars, result_, error_, passed, syncResult>>

\* A pool thread picks the queued worker up and enters Execute
ExecuteStart(i) ==
  /\ status[i] = "queued"
  /\ status' = [status EXCEPT ![i] = "running"]
  /\ log' = [log EXCEPT ![i] = @ \o By("pool", << "Execute" >>)]
  /\ UNCHANGED <<mvars, gvars, dvars, nextId, callee, args, argAt, input_, result_, error_,
                 passed, deferred, mainWaiting, syncResult>>

\* Execute, the external function returns: result_ = Name(input_)
ExecuteReturn(i) ==
  /\ status[i] = "running"
  /\ passed' = [passed EXCEPT ![i] = ExecuteInput(i)]
  /\ result_' = [result_ EXCEPT ![i] = External(callee[i], ExecuteInput(i))]
  /\ status' = [status EXCEPT ![i] = "executed"]
  /\ log' = [log EXCEPT ![i] = @ \o By("pool", << "Execute returns" >>)]
  /\ mainWaiting' = IF mainWaiting = i THEN 0 ELSE mainWaiting
  /\ UNCHANGED <<mvars, gvars, dvars, nextId, callee, args, argAt, input_, error_, deferred,
                 syncResult>>

\* Execute, the external function throws a std::exception: SetError(e.what())
ExecuteThrow(i) ==
  /\ status[i] = "running"
  /\ passed' = [passed EXCEPT ![i] = ExecuteInput(i)]
  /\ error_' = [error_ EXCEPT ![i] = ExceptionText]
  /\ status' = [status EXCEPT ![i] = "executed"]
  /\ log' = [log EXCEPT ![i] = @ \o By("pool", << "Execute returns" >>)]
  /\ mainWaiting' = IF mainWaiting = i THEN 0 ELSE mainWaiting
  /\ UNCHANGED <<mvars, gvars, dvars, nextId, callee, args, argAt, input_, result_, deferred,
                 syncResult>>

\* Back on the calling thread: OnOK when no error was set, else OnError; each
\* calls the callback once, and the worker is destroyed
OnWorkComplete(i) ==
  /\ MainFree
  /\ status[i] = "executed"
  /\ LET info == IF error_[i] = 0 THEN OnOKArgs(i) ELSE OnErrorArgs(i)
         ops  == CallbackOps(info)
         h    == CapturedDeferred(i)
     IN /\ deferred' = [deferred EXCEPT ![h] = SettleAll(@, ops)]
        /\ log' = [log EXCEPT ![i] =
                     @ \o By("main", << IF error_[i] = 0 THEN "OnOK" ELSE "OnError" >>)
                       \o By("main", [ k \in 1..Len(ops) |-> ops[k].op ])]
  /\ status' = [status EXCEPT ![i] = "done"]
  /\ UNCHANGED <<mvars, gvars, dvars, nextId, callee, args, argAt, input_, result_, error_,
                 passed, mainWaiting, syncResult>>

\* The caller changes the object it passed, while the worker has yet to
\* finish Execute
MutateArg(i) ==
  /\ MainFree
  /\ status[i] \in {"queued", "running"}
  /\ Overwritten(args[i]) # args[i]
  /\ args' = [args EXCEPT ![i] = Overwritten(@)]
  /\ UNCHANGED <<mvars, gvars, dvars, nextId, callee, argAt, status, input_, result_, error_,
                 passed, deferred, log, mainWaiting, syncResult>>

\* A call of an entry point of the addon with the given arguments, and what
\* came of it
Called(via, entry, arguments, w) ==
  [outcome |-> w.outcome, value |-> w.value, arg |-> w.arg, steps |-> w.steps,
   via |-> via, entry |-> entry, argc |-> Len(arguments)]

\* info[0] of a call: no object when the argument is missing
Info0(arguments) == IF Len(arguments) > 0 THEN arguments[1] ELSE NotObject

\* Solver_process_wrapper called on the addon itself, the whole handler
SyncCall(a) ==
  /\ MainFree
  /\ a \in SyncArgs
  /\ \E d \in InputDataDefaults, throws \in BOOLEAN :
       syncResult' = Called("addon", "Solver_process", << a >>,
                            Solver_process_wrapper(a, d, throws))
  /\ UNCHANGED <<mvars, gvars, dvars, nextId, callee, args, argAt, status, input_, result_,
                 error_, passed, deferred, log, mainWaiting>>

\* Solver.process(input) of the facade, the whole method: convert, call the
\* addon, convert the result; what the wrapper throws passes through
FacadeCall(input) ==
  /\ MainFree
  /\ input \in FacadeInputs
  /\ \E d \in InputDataDefaults, throws \in BOOLEAN :
       LET arguments == FacadeArguments(input)
           w == Solver_process_wrapper(Info0(arguments), d, throws)
       IN syncResult' = Called("facade", FacadeEntryPoint, arguments,
                               [w EXCEPT !.value = fromOutputDataNative(@)])
  /\ UNCHANGED <<mvars, gvars, dvars, nextId, callee, args, argAt, status, input_, result_,
                 error_, passed, deferred, log, mainWaiting>>

AllArgs == UNION { CallerArgs(e, i) : e \in AsyncExports, i \in Ids }

Next ==
  \/ \E e \in AsyncExports, a \in AllArgs : AsyncCallTypeError(e, a)
  \/ \E e \in AsyncExports, a \in AllArgs : AsyncCallFault(e, a)
  \/ \E e \in AsyncExports, a \in AllArgs : AsyncCallQueue(e, a)
  \/ \E i \in Ids : ExecuteStart(i)
  \/ \E i \in Ids : ExecuteReturn(i)
  \/ \E i \in Ids : ExecuteThrow(i)
  \/ \E i \in Ids : OnWorkComplete(i)
  \/ \E i \in Ids : MutateArg(i)
  \/ \E a \in SyncArgs : SyncCall(a)
  \/ \E input \in FacadeInputs : FacadeCall(input)

Spec == Init /\ [][Next]_vars

\* The pool runs every queued worker, the external function ends, and the
\* event loop of the calling thread delivers every completion
FairSpec ==
  /\ Spec
  /\ \A i \in Ids : WF_vars(ExecuteStart(i))
  /\ \A i \in Ids : WF_vars(ExecuteReturn(i) \/ ExecuteThrow(i))
  /\ \A i \in Ids : WF_vars(OnWorkComplete(i))

\* ------------------------------------------------- marshalling, as a machine
InitMarshal ==
  /\ schema \in Schemas
  /\ x \in StructValues(schema)
  /\ obj = NoObj
  /\ dflt = NoVal.val
  /\ y = NoVal
  /\ mphase = "start"
  /\ RuntimeStart
  /\ GeneratorOff
  /\ DecoratorsOff

\* x.ToNapi(env)
DoToNapi ==
  /\ mphase = "start"
  /\ obj' = ToNapi(schema, x)
  /\ mphase' = "serialized"
  /\ UNCHANGED <<schema, x, dflt, y, rvars, gvars, dvars>>

\* A frontend caller passes an object holding some of the struct's keys
DoCallerObject ==
  /\ mphase = "start"
  /\ \E keys \in SUBSET Names(schema) :
       obj' = Restrict(CallerObject(schema, x), keys)
  /\ mphase' = "given"
  /\ UNCHANGED <<schema, x, dflt, y, rvars, gvars, dvars>>

\* S::FromNapi(obj)
DoFromNapi ==
  /\ mphase \in {"serialized", "given"}
  /\ \E d \in DefaultStructs(schema) :
       /\ dflt' = d
       /\ y' = FromNapi(schema, obj, d)
  /\ mphase' = IF mphase = "serialized" THEN "roundtrip" ELSE "parsed"
  /\ UNCHANGED <<schema, x, obj, rvars, gvars, dvars>>

NextMarshal == DoToNapi \/ DoCallerObject \/ DoFromNapi

SpecMarshal == InitMarshal /\ [][NextMarshal]_vars

\* ------------------------------------------------------- the generator
\* ---- text
\* The pieces the texts of this model are made of.  A text contains sub when
\* it is some pieces around sub; every text below is a concatenation of at
\* most three of these pieces.
TextParts ==
  {"", "@", "()", "Legacy()", "[]", ">", "string", "boolean", "number",
   "Array<", "Array<string", "Array<number", "Map<string, number"}

\* String.prototype.includes
Includes(text, sub) ==
  \E pre \in TextParts, post \in TextParts : text = pre \o sub \o post

\* String.prototype.startsWith
StartsWith(text, sub) ==
  \E mid \in TextParts, post \in TextParts : text = sub \o mid \o post

\* text.replace('[]', ''): the first occurrence is removed.  No text of this
\* model holds '[]' twice, so the split around it is unique.
ReplaceBrackets(text) ==
  IF Includes(text, "[]")
    THEN LET split == CHOOSE pp \in TextParts \X TextParts :
                        text = pp[1] \o "[]" \o pp[2]
         IN split[1] \o split[2]
    ELSE text

\* text.slice(6, -1) of a text that starts with 'Array<': the six characters
\* of 'Array<' and the last character are dropped.  The texts of this model
\* that start with 'Array<' end in '>', a single character.
SliceArray(text) ==
  CHOOSE mid \in TextParts : text = "Array<" \o mid \o ">"

\* ---- name sanitizer
cppKeywords ==
  {"auto", "break", "case", "char", "const", "continue", "default", "do",
   "double", "else", "enum", "extern", "float", "for", "goto", "if",
   "inline", "int", "long", "register", "restrict", "return", "short",
   "signed", "sizeof", "static", "struct", "switch", "typedef", "union",
   "unsigned", "void", "volatile", "while", "bool", "catch", "class",
   "const_cast", "delete", "dynamic_cast", "explicit", "export", "false",
   "friend", "mutable", "namespace", "new", "operator", "private",
   "protected", "public", "reinterpret_cast", "static_cast", "template",
   "this", "throw", "true", "try", "typeid", "typename", "using",
   "virtual", "wchar_t"}

\* The field names a source class may declare
PropNames == {"name", "int", "int_", "Int"}

\* String.prototype.toLowerCase on the field names above: 'Int' is the one
\* that holds an upper-case letter
toLowerCase(name) == IF name = "Int" THEN "int" ELSE name

isReservedCppKeyword(name) == toLowerCase(name) \in cppKeywords

sanitizeFieldName(name) ==
  IF isReservedCppKeyword(name) THEN name \o "_" ELSE name

\* ---- schema extraction
RECURSIVE ConcatAll(_)
ConcatAll(ss) == IF ss = << >> THEN << >> ELSE Head(ss) \o ConcatAll(Tail(ss))

\* Decorator.getFullText of a decorator applied without arguments
getFullText(d) == "@" \o d \o "()"

\* decorators.some(d => d.getName() === marker || d.getFullText().includes('@' + marker))
HasDecorator(decorators, marker) ==
  \E k \in 1..Len(decorators) :
    \/ decorators[k] = marker
    \/ Includes(getFullText(decorators[k]), "@" \o marker)

\* console.warn of parseField
ReservedWarning(name) == [field |-> name, renamedTo |-> name \o "_"]

\* parseField: no field (null) for a property without a type node
parseField(prop) ==
  LET typeText == prop.typeText
      isArray  == Includes(typeText, "[]") \/ StartsWith(typeText, "Array<")
      baseType == IF isArray
                    THEN (IF Includes(typeText, "[]")
                            THEN ReplaceBrackets(typeText)
                            ELSE SliceArray(typeText))
                    ELSE typeText
  IN IF typeText = ""
       THEN [fields |-> << >>, warnings |-> << >>]
       ELSE [fields   |-> << [name |-> prop.name,
                              type |-> mapTypeScriptToCpp(baseType),
                              isArray |-> isArray,
                              isOptional |-> prop.isOptional] >>,
             warnings |-> IF isReservedCppKeyword(prop.name)
                            THEN << ReservedWarning(prop.name) >>
                            ELSE << >>]

\* parseStruct: no struct (null) for a class without the CppStruct decorator.
\* The fields are parsed, and their warnings printed, only for a marked class.
parseStruct(classDecl) ==
  LET props  == classDecl.properties
      parsed == [ k \in 1..Len(props) |-> parseField(props[k]) ]
  IN IF ~HasDecorator(classDecl.decorators, "CppStruct")
       THEN [structs |-> << >>, warnings |-> << >>]
       ELSE [structs  |-> << [name   |-> classDecl.name,
                              fields |-> ConcatAll([ k \in 1..Len(props) |->
                                                       parsed[k].fields ])] >>,
             warnings |-> ConcatAll([ k \in 1..Len(props) |-> parsed[k].warnings ])]

\* parseExportMethod
parseExportMethod(method, className) ==
  LET parameters == method.parameters
      paramList  == [ k \in 1..Len(parameters) |->
                        [name |-> parameters[k].name,
                         type |-> mapTypeScriptToCpp(parameters[k].type)] ]
      paramType  == IF Len(parameters) > 0
                      THEN mapTypeScriptToCpp(parameters[1].type)
                      ELSE "void"
      returnTypeStr == mapTypeScriptToCpp(method.returnType)
      name == IF method.isStatic
                THEN className \o "_" \o method.name
                ELSE method.name
  IN [name |-> name, className |-> className, methodName |-> method.name,
      paramType |-> paramType, returnType |-> returnTypeStr,
      isStatic |-> method.isStatic, parameters |-> paramList]

\* parseExports: the methods of a class that carry the CppExport decorator
parseExports(classDecl) ==
  LET methods == classDecl.methods IN
  ConcatAll([ k \in 1..Len(methods) |->
                IF HasDecorator(methods[k].decorators, "CppExport")
                  THEN << parseExportMethod(methods[k], classDecl.name) >>
                  ELSE << >> ])

\* parseFiles on source files that hold these class declarations, in order
parseFiles(classes) ==
  [structs  |-> ConcatAll([ k \in 1..Len(classes) |-> parseStruct(classes[k]).structs ]),
   exports  |-> ConcatAll([ k \in 1..Len(classes) |-> parseExports(classes[k]) ]),
   warnings |-> ConcatAll([ k \in 1..Len(classes) |-> parseStruct(classes[k]).warnings ])]

\* ---- emission
\* An emitted line: what it is (site), the struct or export it belongs to, the
\* backend type or conversion in it, the boundary key in it and the backend
\* identifier in it ("" where the line holds none).  A file is the sequence
\* of the lines put into its template; the template's own fixed text is the
\* same in every run and is left out.
Line(site, owner, type, key, id) ==
  [site |-> site, owner |-> owner, type |-> type, key |-> key, id |-> id]

\* generateStructsHeader, one member declaration: `cppType sanitizedName;`
MemberLine(struct, field) ==
  Line("member", struct.name,
       IF field.isArray THEN "std::vector<" \o field.type \o ">" ELSE field.type,
       "", sanitizeFieldName(field.name))

\* generateStructsHeader, the declaration of one struct
StructDeclaration(struct) ==
  << Line("struct", struct.name, "", "", struct.name) >>
  \o [ k \in 1..Len(struct.fields) |-> MemberLine(struct, struct.fields[k]) ]
  \o << Line("FromNapi declaration", struct.name, struct.name, "", "FromNapi"),
        Line("ToNapi declaration", struct.name, "Napi::Object", "", "ToNapi"),
        Line("end of struct", struct.name, "", "", "") >>

generateStructsHeader(structs) ==
  ConcatAll([ k \in 1..Len(structs) |-> StructDeclaration(structs[k]) ])

\* The extractor emitted for an element type, none for any other type
ExtractorText(type) ==
  CASE type = "std::string" -> "As<Napi::String>().Utf8Value()"
    [] type = "int"         -> "As<Napi::Number>().Int32Value()"
    [] type = "bool"        -> "As<Napi::Boolean>().Value()"

\* (mutation) the write site emitted with the name the source gives the field
WriteLines_Raw(struct, field) ==
  IF field.type \in Handled
    THEN << Line(IF field.isArray THEN "push_back" ELSE "assign", struct.name,
                 ExtractorText(field.type),
                 IF field.isArray THEN "" ELSE field.name,
                 field.name) >>
    ELSE << >>

\* generateStructsImpl, FromNapi: the statement that writes the member
\* (`result.id.push_back(...)` or `result.id = ...`), emitted for the three
\* handled types only
WriteLines(struct, field) ==
  IF field.type \in Handled
    THEN << Line(IF field.isArray THEN "push_back" ELSE "assign", struct.name,
                 ExtractorText(field.type),
                 IF field.isArray THEN "" ELSE field.name,
                 sanitizeFieldName(field.name)) >>
    ELSE << >>

\* generateStructsImpl, FromNapi: the lines of one field
FromNapiLines(struct, field) ==
  IF field.isArray
    THEN << Line("if Has and IsArray", struct.name, "", field.name, ""),
            Line("arr", struct.name, "Napi::Array", field.name, "arr"),
            Line("for arr", struct.name, "", "", "arr") >>
         \o WriteLines(struct, field)
         \o << Line("end for", struct.name, "", "", ""),
               Line("end if", struct.name, "", "", "") >>
    ELSE << Line("if Has", struct.name, "", field.name, "") >>
         \o WriteLines(struct, field)
         \o << Line("end if", struct.name, "", "", "") >>

\* (mutation) ToNapi writes the key under the backend identifier
ToNapiLines_SanitizedKey(struct, field) ==
  LET sanitizedName == sanitizeFieldName(field.name)
      arrayVarName  == sanitizedName \o "Arr"
  IN IF field.isArray
       THEN << Line("array var", struct.name, "Napi::Array", "", arrayVarName),
               Line("size", struct.name, "", "", sanitizedName),
               Line("for size", struct.name, "", "", sanitizedName),
               Line("element", struct.name,
                    IF field.type = "std::string" THEN "Napi::String::New"
                                                  ELSE "Napi::Number::New",
                    "", sanitizedName),
               Line("end for", struct.name, "", "", ""),
               Line("Set", struct.name, "", sanitizedName, arrayVarName) >>
       ELSE IF field.type \in Handled
         THEN << Line("Set member", struct.name,
                      CASE field.type = "std::string" -> "Napi::String::New"
                        [] field.type = "int"         -> "Napi::Number::New"
                        [] field.type = "bool"        -> "Napi::Boolean::New",
                      sanitizedName, sanitizedName) >>
         ELSE << >>

\* generateStructsImpl, ToNapi: the lines of one field; every line but the
\* last of an array reads the member
ToNapiLines(struct, field) ==
  LET sanitizedName == sanitizeFieldName(field.name)
      arrayVarName  == sanitizedName \o "Arr"
  IN IF field.isArray
       THEN << Line("array var", struct.name, "Napi::Array", "", arrayVarName),
               Line("size", struct.name, "", "", sanitizedName),
               Line("for size", struct.name, "", "", sanitizedName),
               Line("element", struct.name,
                    IF field.type = "std::string" THEN "Napi::String::New"
                                                  ELSE "Napi::Number::New",
                    "", sanitizedName),
               Line("end for", struct.name, "", "", ""),
               Line("Set", struct.name, "", field.name, arrayVarName) >>
       ELSE IF field.type \in Handled
         THEN << Line("Set member", struct.name,
                      CASE field.type = "std::string" -> "Napi::String::New"
                        [] field.type = "int"         -> "Napi::Number::New"
                        [] field.type = "bool"        -> "Napi::Boolean::New",
                      field.name, sanitizedName) >>
         ELSE << >>

\* generateStructsImpl, the two functions of one struct
StructImplementation(struct) ==
  << Line("FromNapi", struct.name, struct.name, "", "FromNapi"),
     Line("result", struct.name, struct.name, "", "result") >>
  \o ConcatAll([ k \in 1..Len(struct.fields) |->
                   FromNapiLines(struct, struct.fields[k]) ])
  \o << Line("return result", struct.name, "", "", "result"),
        Line("ToNapi", struct.name, "Napi::Object", "", "ToNapi"),
        Line("obj", struct.name, "Napi::Object", "", "obj") >>
  \o ConcatAll([ k \in 1..Len(struct.fields) |->
                   ToNapiLines(struct, struct.fields[k]) ])
  \o << Line("return obj", struct.name, "", "", "obj") >>

generateStructsImpl(structs) ==
  ConcatAll([ k \in 1..Len(structs) |-> StructImplementation(structs[k]) ])

\* generateApiWrapper: the three parts put into the template, each holding
\* its lines for every export in order
ExternLine(exp) ==
  Line("extern", exp.name,
       exp.returnType \o " (const " \o exp.paramType \o "&)", "", exp.name)

WrapperLines(exp) ==
  << Line("wrapper", exp.name, "Napi::Value", "", exp.name \o "_wrapper"),
     Line("if no object", exp.name, "", "", ""),
     Line("TypeError", exp.name, "Napi::TypeError", "", ""),
     Line("return Null", exp.name, "", "", ""),
     Line("input", exp.name, exp.paramType, "", exp.paramType \o "::FromNapi"),
     Line("call", exp.name, exp.returnType, "", exp.name),
     Line("return ToNapi", exp.name, "", "", "result") >>

\* (mutation) the wrapper is registered under the method's own name
RegistrationLine_MethodName(exp) ==
  Line("exports.Set", exp.name, "Napi::Function", exp.methodName,
       exp.name \o "_wrapper")

RegistrationLine(exp) ==
  Line("exports.Set", exp.name, "Napi::Function", exp.name, exp.name \o "_wrapper")

generateApiWrapper(exports) ==
  [ k \in 1..Len(exports) |-> ExternLine(exports[k]) ]
  \o ConcatAll([ k \in 1..Len(exports) |-> WrapperLines(exports[k]) ])
  \o [ k \in 1..Len(exports) |-> RegistrationLine(exports[k]) ]

StructExists(cppType, structs) ==
  \E k \in 1..Len(structs) : structs[k].name = cppType

\* cppTypeToTS, on the backend types the type mapper of this model yields
\* (none of them holds `const`); 'any' comes with a console warning
cppTypeToTS(cppType, structs) ==
  CASE cppType \in {"int", "double", "float", "int8_t", "uint8_t", "int16_t",
                    "uint16_t", "int32_t", "uint32_t", "int64_t", "uint64_t",
                    "float32_t", "float64_t"} \cup PreciseNumericTypes -> "number"
    [] cppType = "bool"                                         -> "boolean"
    [] cppType \in {"string", "std::string"}                    -> "string"
    [] cppType = "void"                                         -> "void"
    [] OTHER -> IF StructExists(cppType, structs) THEN cppType ELSE "any"

cppTypeToTSBeautiful(cppType, structs) ==
  CASE cppType = "int"                     -> "number"
    [] cppType = "double"                  -> "f64"
    [] cppType = "float"                   -> "f32"
    [] cppType = "bool"                    -> "boolean"
    [] cppType \in {"string", "std::string"} -> "string"
    [] cppType = "void"                    -> "void"
    [] cppType = "int8_t"                  -> "i8"
    [] cppType = "uint8_t"                 -> "u8"
    [] cppType = "int16_t"                 -> "i16"
    [] cppType = "uint16_t"                -> "u16"
    [] cppType = "int32_t"                 -> "i32"
    [] cppType = "uint32_t"                -> "u32"
    [] cppType = "int64_t"                 -> "i64"
    [] cppType = "uint64_t"                -> "u64"
    [] cppType = "float32_t"               -> "f32"
    [] cppType = "float64_t"               -> "f64"
    [] OTHER -> IF StructExists(cppType, structs)
                  THEN cppType
                  ELSE cppTypeToTS(cppType, structs)

fieldToTSType(field, structs) ==
  cppTypeToTS(field.type, structs)
  \o (IF field.isArray THEN "[]" ELSE "")
  \o (IF field.isOptional THEN " | undefined" ELSE "")

fieldToTSTypeBeautiful(field, structs) ==
  cppTypeToTSBeautiful(field.type, structs)
  \o (IF field.isArray THEN "[]" ELSE "")
  \o (IF field.isOptional THEN " | undefined" ELSE "")

\* `export interface S { key: type; ... }` with the given name and field types
InterfaceLines(site, name, struct, types) ==
  << Line(site, name, "", "", name) >>
  \o [ k \in 1..Len(struct.fields) |->
         Line("property", name, types[k], struct.fields[k].name, "") ]
  \o << Line("end of interface", name, "", "", "") >>

\* One entry of `interface AddonExports`; suffix is 'Native' in generated_api.ts
AddonExportLine(exp, structs, suffix) ==
  LET inputType == IF Len(exp.parameters) > 0 THEN exp.parameters[1].type ELSE "void"
      inputTS   == cppTypeToTS(inputType, structs)
      outputTS  == cppTypeToTS(exp.returnType, structs)
  IN Line("addon export", exp.name,
          IF inputType = "void"
            THEN "() => " \o outputTS \o suffix
            ELSE "(input: " \o inputTS \o suffix \o ") => " \o outputTS \o suffix,
          exp.name, "")

\* generateAddonTypes: generated_addon.d.ts
generateAddonTypes(parseResult) ==
  LET structs == parseResult.structs
      exports == parseResult.exports
  IN ConcatAll([ k \in 1..Len(structs) |->
                   InterfaceLines("export interface", structs[k].name, structs[k],
                                  [ j \in 1..Len(structs[k].fields) |->
                                      fieldToTSType(structs[k].fields[j], structs) ]) ])
     \o << Line("interface AddonExports", "", "", "", "AddonExports") >>
     \o [ k \in 1..Len(exports) |-> AddonExportLine(exports[k], structs, "") ]
     \o << Line("end of interface", "AddonExports", "", "", ""),
           Line("declare addon", "", "AddonExports", "", "addon"),
           Line("export default", "", "", "", "addon") >>

\* The precision-qualified type names in the order Array.prototype.sort
\* gives them
SortedNumericTypes ==
  << "f32", "f64", "i16", "i32", "i64", "i8", "u16", "u32", "u64", "u8" >>

RECURSIVE Join(_, _)
Join(ss, sep) ==
  IF ss = << >> THEN ""
  ELSE IF Len(ss) = 1 THEN Head(ss)
  ELSE Head(ss) \o sep \o Join(Tail(ss), sep)

\* generateTypeScriptAPI: usedNumericTypes, sorted
usedNumericTypes(structs) ==
  SelectSeq(SortedNumericTypes,
            LAMBDA t : \E k \in 1..Len(structs) :
                         \E j \in 1..Len(structs[k].fields) :
                           cppTypeToTSBeautiful(structs[k].fields[j].type, structs) = t)

\* generateTypeScriptAPI: classMethods, a Map whose keys keep the order in
\* which they were first set
IsClassMethod(exp) == exp.className # "" /\ exp.isStatic

IsFreeFunction(exp) == exp.className = ""

FacadeClasses(exports) ==
  LET first(k) == /\ IsClassMethod(exports[k])
                  /\ \A j \in 1..(k - 1) :
                       ~(IsClassMethod(exports[j])
                         /\ exports[j].className = exports[k].className)
  IN ConcatAll([ k \in 1..Len(exports) |->
                   IF first(k) THEN << exports[k].className >> ELSE << >> ])

\* One facade entry: a static method of the owner's class, or a free function.
\* It converts its input, calls the addon's entry point method.name and
\* converts the result.
FacadeMethodLines(method, structs, addonName) ==
  LET inputType == IF Len(method.parameters) > 0 THEN method.parameters[1].type
                                                 ELSE "void"
      inputTS   == cppTypeToTSBeautiful(inputType, structs)
      outputTS  == cppTypeToTSBeautiful(method.returnType, structs)
      entry     == IF IsFreeFunction(method) THEN method.name ELSE method.methodName
  IN << Line(IF IsFreeFunction(method) THEN "export function" ELSE "static method",
             method.className,
             IF inputType = "void"
               THEN "(): " \o outputTS
               ELSE "(input: " \o inputTS \o "): " \o outputTS,
             "", entry) >>
     \o (IF inputType = "void"
           THEN << >>
           ELSE << Line("to native", method.className, "", "",
                        "to" \o inputType \o "Native") >>)
     \o << Line("addon call", method.className,
                IF inputType = "void" THEN "()" ELSE "(nativeInput)",
                method.name, addonName),
           Line("from native", method.className, "", "",
                "from" \o method.returnType \o "Native"),
           Line("end of entry", method.className, "", "", "") >>

FacadeClassLines(className, exports, structs) ==
  << Line("export class", className, "", "", className) >>
  \o ConcatAll([ k \in 1..Len(exports) |->
                   IF IsClassMethod(exports[k]) /\ exports[k].className = className
                     THEN FacadeMethodLines(exports[k], structs, "addon")
                     ELSE << >> ])
  \o << Line("end of class", className, "", "", "") >>

\* generateTypeScriptAPI: generated_api.ts
generateTypeScriptAPI(parseResult) ==
  LET structs == parseResult.structs
      exports == parseResult.exports
      numeric == usedNumericTypes(structs)
      classes == FacadeClasses(exports)
  IN (IF numeric # << >>
        THEN << Line("import", "", Join(numeric, ", "), "", "ts-cpp-bridge") >>
        ELSE << >>)
     \o ConcatAll([ k \in 1..Len(structs) |->
                      InterfaceLines("export interface", structs[k].name, structs[k],
                                     [ j \in 1..Len(structs[k].fields) |->
                                         fieldToTSTypeBeautiful(structs[k].fields[j],
                                                                structs) ]) ])
     \o ConcatAll([ k \in 1..Len(structs) |->
                      InterfaceLines("interface", structs[k].name \o "Native",
                                     structs[k],
                                     [ j \in 1..Len(structs[k].fields) |->
                                         fieldToTSType(structs[k].fields[j], structs) ]) ])
     \o << Line("interface AddonExports", "", "", "", "AddonExports") >>
     \o [ k \in 1..Len(exports) |-> AddonExportLine(exports[k], structs, "Native") ]
     \o << Line("end of interface", "AddonExports", "", "", ""),
           Line("require addon", "", "AddonExports", "", "addon") >>
     \o ConcatAll([ k \in 1..Len(structs) |->
                      << Line("function", structs[k].name, "", "",
                              "to" \o structs[k].name \o "Native"),
                         Line("function", structs[k].name, "", "",
                              "from" \o structs[k].name \o "Native") >> ])
     \o ConcatAll([ k \in 1..Len(classes) |->
                      FacadeClassLines(classes[k], exports, structs) ])
     \o ConcatAll([ k \in 1..Len(exports) |->
                      IF IsFreeFunction(exports[k])
                        THEN FacadeMethodLines(exports[k], structs, "addonTyped")
                        ELSE << >> ])

\* ---- the output directory
MachineOwned ==
  {"generated_structs.hpp", "generated_structs.cpp", "generated_api.cpp",
   "generated_addon.d.ts", "generated_api.ts"}

StubFile == "implementation.cpp"

\* (mutation) the rendering is added to what the file already holds
writeFileSync_Append(fs, name, content) ==
  [ n \in DOMAIN fs \cup {name} |->
      IF n = name
        THEN (IF name \in DOMAIN fs THEN fs[name] \o content ELSE content)
        ELSE fs[n] ]

\* fs.writeFileSync(path.join(outputDir, name), content): the file is created
\* or replaced
writeFileSync(fs, name, content) ==
  [ n \in DOMAIN fs \cup {name} |-> IF n = name THEN content ELSE fs[n] ]

\* The templates the three backend files are rendered from
Templates == {"structs.hpp.template", "structs.cpp.template", "api.cpp.template"}

\* What fs.readFileSync throws for a template it cannot read
ReadError(template) == "ENOENT: no such file or directory, open '" \o template \o "'"

\* generateCppCode with generateTypeScriptWrappers: the five files, in order.
\* Each of the first three reads its template, renders and writes; a template
\* that cannot be read throws, and the files after it are not written.
generateCppCode(parseResult, fs, unread) ==
  LET f1 == writeFileSync(fs, "generated_structs.hpp",
                          generateStructsHeader(parseResult.structs))
      f2 == writeFileSync(f1, "generated_structs.cpp",
                          generateStructsImpl(parseResult.structs))
      f3 == writeFileSync(f2, "generated_api.cpp",
                          generateApiWrapper(parseResult.exports))
      f4 == writeFileSync(f3, "generated_addon.d.ts", generateAddonTypes(parseResult))
      f5 == writeFileSync(f4, "generated_api.ts", generateTypeScriptAPI(parseResult))
  IN IF "structs.hpp.template" \in unread
       THEN [fs |-> fs, thrown |-> ReadError("structs.hpp.template")]
     ELSE IF "structs.cpp.template" \in unread
       THEN [fs |-> f1, thrown |-> ReadError("structs.cpp.template")]
     ELSE IF "api.cpp.template" \in unread
       THEN [fs |-> f2, thrown |-> ReadError("api.cpp.template")]
     ELSE [fs |-> f5, thrown |-> ""]

\* The implementation stub: written on the first run only, one function to
\* fill in per export; skipped when the file exists
generateImplementationStub(exports, fs) ==
  IF StubFile \in DOMAIN fs
    THEN fs
    ELSE writeFileSync(fs, StubFile,
                       [ k \in 1..Len(exports) |->
                           Line("TODO", exports[k].name,
                                exports[k].returnType \o " (const "
                                  \o exports[k].paramType \o "&)",
                                "", exports[k].name) ])

\* A line written by hand
UserLine == Line("written by hand", "", "", "", "")

HandEdited(fs) ==
  { n \in DOMAIN fs : \E k \in 1..Len(fs[n]) : fs[n][k] = UserLine }

\* ---- the projects the generator is run on
MaxMethods == 2
MaxRuns == 2

TypeTexts ==
  {"string", "number", "boolean[]", "Array<string>", "Map<string, number[]>", ""}

\* PropertyDeclaration: getName, the text of getTypeNode ("" without a type
\* node), hasQuestionToken
Props ==
  { [name |-> n, typeText |-> t, isOptional |-> FALSE] :
      n \in PropNames, t \in TypeTexts }

\* The field lists of the struct class: one field of any type text, or
\* several fields of the three commonest
PropLists ==
  { ps \in SeqsUpTo(Props, MaxFields) :
      /\ Len(ps) >= 1
      /\ \A i, j \in 1..Len(ps) : i # j => ps[i].name # ps[j].name
      /\ Len(ps) > 1 =>
           \A i \in 1..Len(ps) : ps[i].typeText \in {"string", "number", "boolean[]"} }

MethodNames == {"process", "run"}

\* MethodDeclaration: getName, the names of getDecorators, isStatic, the
\* parameters and the text of getReturnTypeNode
Methods(decorations) ==
  { [name |-> n, decorators |-> d, isStatic |-> st,
     parameters |-> << [name |-> "input", type |-> "Data"] >>,
     returnType |-> "Data"] :
      n \in MethodNames, d \in decorations, st \in BOOLEAN }

MethodLists(decorations, max) ==
  { ms \in SeqsUpTo(Methods(decorations), max) :
      \A i, j \in 1..Len(ms) : i # j => ms[i].name # ms[j].name }

ClassDecl(name, decorators, properties, methods) ==
  [name |-> name, decorators |-> decorators, properties |-> properties,
   methods |-> methods]

\* A source file with a struct class and two classes of methods: the
\* struct's fields vary
ProjectsByFields ==
  { << ClassDecl("Data", << "CppStruct" >>, ps, << >>),
       ClassDecl("Solver", << >>, << >>, ms),
       ClassDecl("Tools", << >>, << >>, << >>) >> :
      ps \in PropLists,
      ms \in { m \in MethodLists({ << "CppExport" >> }, 1) :
                 Len(m) = 1 /\ m[1].name = "process" /\ m[1].isStatic } }

\* The same, the methods vary
ProjectsByMethods ==
  { << ClassDecl("Data", << "CppStruct" >>,
                 << [name |-> "name", typeText |-> "string", isOptional |-> FALSE] >>,
                 << >>),
       ClassDecl("Solver", << >>, << >>, ms),
       ClassDecl("Tools", << >>, << >>, ts) >> :
      ms \in MethodLists({ << "CppExport" >>, << "CppAsync" >>, << >>,
                           << "CppExportLegacy" >> }, MaxMethods),
      ts \in MethodLists({ << "CppExport" >> }, 1) }

\* The field lists of the classes of the family below: typed and untyped
\* properties, in both orders
ClassFieldLists ==
  LET typed(n, t) == [name |-> n, typeText |-> t, isOptional |-> FALSE] IN
  { << typed("name", "string") >>,
    << typed("int", "") >>,
    << typed("name", "string"), typed("int", "") >>,
    << typed("int", ""), typed("name", "number") >> }

\* Two source files with one class each: the name of the second class, the
\* decorators and the fields vary
ProjectsByClasses ==
  { << ClassDecl("Data", d1, ps1, << >>), ClassDecl(n2, d2, ps2, << >>) >> :
      n2 \in {"Data", "Point"},
      d1 \in { << "CppStruct" >>, << "CppStructLegacy" >> },
      d2 \in { << "CppStruct" >>, << >>, << "CppStructLegacy" >> },
      ps1 \in ClassFieldLists, ps2 \in ClassFieldLists }

\* A source file with one struct class of one field of a precision-qualified
\* numeric type
ProjectsByNumericTypes ==
  { << ClassDecl("Data", << "CppStruct" >>,
                 << [name |-> "name", typeText |-> t, isOptional |-> FALSE] >>,
                 << >>) >> :
      t \in PreciseNumericTypes }

\* A source file with a struct class and a class with one static export,
\* declared with or without a parameter
ProjectsByParameters ==
  { << ClassDecl("Data", << "CppStruct" >>,
                 << [name |-> "name", typeText |-> "string", isOptional |-> FALSE] >>,
                 << >>),
       ClassDecl("Solver", << >>, << >>,
                 << [name |-> n, decorators |-> << "CppExport" >>, isStatic |-> TRUE,
                     parameters |-> ps, returnType |-> "Data"] >>) >> :
      n \in MethodNames,
      ps \in { << >>, << [name |-> "input", type |-> "Data"] >> } }

\* The example project: a struct class and a class with one export
ExampleProject ==
  << ClassDecl("Data", << "CppStruct" >>,
               << [name |-> "name", typeText |-> "string", isOptional |-> FALSE] >>,
               << >>),
     ClassDecl("Solver", << >>, << >>,
               << [name |-> "process", decorators |-> << "CppExport" >>,
                   isStatic |-> TRUE,
                   parameters |-> << [name |-> "input", type |-> "Data"] >>,
                   returnType |-> "Data"] >>) >>

\* What the command line names as input: the file of the project, with or
\* without a file that is not there, or only a file that is not there
RequestLists ==
  { OneInputFile,
    OneInputFile \o << [path |-> "gone.ts", exists |-> FALSE] >>,
    << [path |-> "gone.ts", exists |-> FALSE] >> }

\* The output directory is empty, or holds an implementation file written by
\* hand; in the example project input files may be missing and a template
\* unreadable
InitGenerator ==
  /\ MarshalOff
  /\ RuntimeStart
  /\ \/ /\ \/ sourceClasses \in ProjectsByFields /\ files = NoFiles
           \/ sourceClasses \in ProjectsByClasses /\ files = NoFiles
           \/ sourceClasses \in ProjectsByNumericTypes /\ files = NoFiles
           \/ sourceClasses \in ProjectsByParameters /\ files = NoFiles
           \/ /\ sourceClasses \in ProjectsByMethods
              /\ files \in { NoFiles, [ n \in {StubFile} |-> << UserLine >> ] }
        /\ requested = OneInputFile
        /\ unreadable = {}
     \/ /\ sourceClasses = ExampleProject
        /\ files = NoFiles
        /\ requested \in RequestLists
        /\ unreadable \in { {} } \cup { {t} : t \in Templates }
  /\ parseOutput = NoParseResult
  /\ runs = 0
  /\ lastRun = NoRun
  /\ DecoratorsOff

\* `ts-cpp-bridge generate -i <files> -o <dir>`, the whole action of the
\* command: collect the input files that exist, warning about the others;
\* exit 1 when there is none; parse; write the files; exit 1 with the message
\* of whatever was thrown
Generate ==
  /\ runs < MaxRuns
  /\ LET inputFiles  == SelectSeq(requested, LAMBDA f : f.exists)
         notFound    == SelectSeq(requested, LAMBDA f : ~f.exists)
         warnings    == [ k \in 1..Len(notFound) |->
                            "File not found: " \o notFound[k].path ]
         parseResult == parseFiles(sourceClasses)
         written     == generateCppCode(parseResult, files, unreadable)
     IN IF Len(inputFiles) = 0
          THEN /\ lastRun' = [code |-> 1, errors |-> << "No input files found" >>,
                              warnings |-> warnings]
               /\ UNCHANGED <<parseOutput, files, runs>>
        ELSE IF written.thrown # ""
          THEN /\ lastRun' = [code |-> 1,
                              errors |-> << "Error during code generation: "
                                              \o written.thrown >>,
                              warnings |-> warnings]
               /\ parseOutput' = parseResult
               /\ files' = written.fs
               /\ UNCHANGED runs
        ELSE /\ lastRun' = [code |-> 0, errors |-> << >>, warnings |-> warnings]
             /\ parseOutput' = parseResult
             /\ files' = generateImplementationStub(parseResult.exports, written.fs)
             /\ runs' = runs + 1
  /\ UNCHANGED <<mvars, rvars, dvars, sourceClasses, requested, unreadable>>

\* Somebody edits a file of the output directory by hand: the stub, or one
\* generated file at a time
EditFile(name) ==
  /\ name \in DOMAIN files
  /\ name \notin HandEdited(files)
  /\ HandEdited(files) \subseteq {StubFile}
  /\ files' = [files EXCEPT ![name] = @ \o << UserLine >>]
  /\ UNCHANGED <<mvars, rvars, dvars, sourceClasses, parseOutput, runs, requested,
                 unreadable, lastRun>>

NextGenerator ==
  \/ Generate
  \/ \E name \in MachineOwned \cup {StubFile} : EditFile(name)

SpecGenerator == InitGenerator /\ [][NextGenerator]_vars

\* ------------------------------------------------------- the decorators
\* The metadata keys: two symbols, one per marker
EXPORT_METADATA_KEY == "Symbol(CppExport)"

ASYNC_EXPORT_METADATA_KEY == "Symbol(CppAsync)"

\* The classes among the design types
FunctionTypes == {"InputData", "OutputData", "Object"}

getTypeString(type) ==
  CASE type = "String"        -> "string"
    [] type = "Number"        -> "number"
    [] type = "Boolean"       -> "boolean"
    [] type = "Array"         -> "array"
    [] type \in FunctionTypes -> type
    [] OTHER                  -> "unknown"

\* Reflect.defineMetadata(metadataKey, metadataValue, target, propertyKey):
\* the value under that key of that property is set or replaced
defineMetadata(md, metadataKey, metadataValue, target, propertyKey) ==
  [ k \in DOMAIN md \cup { << metadataKey, target, propertyKey >> } |->
      IF k = << metadataKey, target, propertyKey >> THEN metadataValue ELSE md[k] ]

\* Reflect.getMetadata(metadataKey, target, propertyKey) is not undefined
hasMetadata(md, metadataKey, target, propertyKey) ==
  << metadataKey, target, propertyKey >> \in DOMAIN md

\* applyExportDecorator
applyExportDecorator(md, types, target, propertyKey, isAsync) ==
  LET paramTypes == types.paramtypes
      returnType == types.returntype
      exportInfo ==
        [name       |-> propertyKey,
         paramType  |-> IF Len(paramTypes) > 0 THEN getTypeString(paramTypes[1])
                                               ELSE "void",
         returnType |-> IF returnType # "undefined" THEN getTypeString(returnType)
                                                    ELSE "void",
         isAsync    |-> isAsync]
      metadataKey == IF isAsync THEN ASYNC_EXPORT_METADATA_KEY
                                ELSE EXPORT_METADATA_KEY
  IN defineMetadata(md, metadataKey, exportInfo, target, propertyKey)

\* getExportInfo and getAsyncExportInfo, as a list of what is defined
getExportInfo(md, target, propertyKey) ==
  IF hasMetadata(md, EXPORT_METADATA_KEY, target, propertyKey)
    THEN << md[<< EXPORT_METADATA_KEY, target, propertyKey >>] >>
    ELSE << >>

getAsyncExportInfo(md, target, propertyKey) ==
  IF hasMetadata(md, ASYNC_EXPORT_METADATA_KEY, target, propertyKey)
    THEN << md[<< ASYNC_EXPORT_METADATA_KEY, target, propertyKey >>] >>
    ELSE << >>

\* getAllExports(constructor): over the own property names of the prototype,
\* the synchronous record if there is one, then the asynchronous one
getAllExports(md) ==
  ConcatAll([ k \in 1..Len(PrototypeNames) |->
                IF PrototypeNames[k] = "constructor"
                  THEN << >>
                  ELSE getExportInfo(md, "prototype", PrototypeNames[k])
                       \o getAsyncExportInfo(md, "prototype", PrototypeNames[k]) ])

\* What the compiler emits as design types of a method
DesignTypes ==
  { NoDesign,
    [paramtypes |-> << "InputData" >>, returntype |-> "OutputData"],
    [paramtypes |-> << "String", "Number" >>, returntype |-> "Object"] }

InitDecorators ==
  /\ MarshalOff
  /\ RuntimeStart
  /\ GeneratorOff
  /\ design \in [Members -> DesignTypes]
  /\ metadata = NoMetadata
  /\ allExports = << >>

\* @CppExport() on a method
CppExport(target, propertyKey) ==
  /\ << target, propertyKey >> \in Members
  /\ metadata' = applyExportDecorator(metadata, design[<< target, propertyKey >>],
                                      target, propertyKey, FALSE)
  /\ UNCHANGED <<mvars, rvars, gvars, design, allExports>>

\* @CppAsync() on a method
CppAsync(target, propertyKey) ==
  /\ << target, propertyKey >> \in Members
  /\ metadata' = applyExportDecorator(metadata, design[<< target, propertyKey >>],
                                      target, propertyKey, TRUE)
  /\ UNCHANGED <<mvars, rvars, gvars, design, allExports>>

\* getAllExports(Solver)
GetAllExports ==
  /\ allExports' = getAllExports(metadata)
  /\ UNCHANGED <<mvars, rvars, gvars, design, metadata>>

NextDecorators ==
  \/ \E m \in Members : CppExport(m[1], m[2])
  \/ \E m \in Members : CppAsync(m[1], m[2])
  \/ GetAllExports

SpecDecorators == InitDecorators /\ [][NextDecorators]_vars

\* ------------------------------------------------------------------ claims
\* C1: for every struct with N fields, ToNapi sets exactly N keys on the
\* boundary object, one per field, none omitted.
C1_ToNapiSetsEveryKey ==
  mphase = "serialized" => DOMAIN obj = Names(schema)

\* C2: FromNapi(ToNapi(x)) equals x field by field.
C2_RoundTrip ==
  mphase = "roundtrip" => (y.ok /\ y.val = x)

\* C3: on a boundary object missing key K, FromNapi leaves field K at the
\* default, populates every field whose key is present, and raises nothing.
C3_PartialObject ==
  mphase = "parsed" =>
    /\ y.ok
    /\ \A n \in Names(schema) :
         IF n \in DOMAIN obj THEN y.val[n] = x[n] ELSE y.val[n] = dflt[n]

\* ---- helpers of the run-time claims
Count(l, ops) == Cardinality({ k \in 1..Len(l) : l[k].op \in ops })

Pos(l, op) == CHOOSE k \in 1..Len(l) : l[k].op = op

Scheduled(i) == status[i] \in {"queued", "running", "executed", "done"}

InFlight(i) == status[i] \in {"queued", "running", "executed"}

Settlements(i) == deferred[i].resolves + deferred[i].rejects

Settled(i) == deferred[i].state \in {"resolved", "rejected"}

\* The struct FromNapi makes of the argument call i was made with
InputAtCall(i) ==
  LET e == callee[i] IN
  { RtFromNapi(ParamSchema(e), argAt[i].o, d).val : d \in ParamDefaults(e) }

\* The boundary objects that serialise the external function's result for
\* the input of call i
ResultFor(i) ==
  { JsObject(ToNapi(ReturnSchema(callee[i]), External(callee[i], in))) :
      in \in InputAtCall(i) }

\* C4: the completion handle of every call that schedules a worker is settled
\* exactly once: never twice, never both ways; one Execute, then one of
\* OnOK / OnError.
C4_SettledExactlyOnce ==
  \A i \in Ids :
    /\ Settlements(i) <= 1
    /\ Scheduled(i) => Count(log[i], {"Execute"}) <= 1
    /\ status[i] = "done" =>
         /\ Settlements(i) = 1
         /\ Count(log[i], {"Execute"}) = 1
         /\ Count(log[i], {"OnOK", "OnError"}) = 1

C4_Witness ==
  \E i, j \in Ids :
    /\ status[i] = "done" /\ deferred[i].resolves = 1
    /\ status[j] = "done" /\ deferred[j].rejects = 1

\* C5: with K workers scheduled concurrently, every finished worker has
\* settled its own handle once, with the external function's result for its
\* own input, whatever the order of completion; no worker touches another's
\* input, result or handle.
C5_ConcurrentWorkersIndependent ==
  /\ Cardinality({ i \in Ids : Settled(i) }) =
       Cardinality({ i \in Ids : status[i] = "done" })
  /\ \A i \in Ids :
       /\ ~Scheduled(i) => (deferred[i] = NoDeferred /\ input_[i] = Unset
                                                     /\ result_[i] = Unset)
       /\ Scheduled(i) => input_[i] \in InputAtCall(i)
       /\ InFlight(i) => deferred[i] = NewDeferred
       /\ (status[i] \in {"executed", "done"} /\ error_[i] = 0) =>
            result_[i] = External(callee[i], input_[i])
       /\ status[i] = "done" =>
            /\ Settlements(i) = 1
            /\ IF error_[i] = 0
                 THEN deferred[i].state = "resolved" /\ deferred[i].value \in ResultFor(i)
                 ELSE deferred[i].state = "rejected"
                      /\ deferred[i].value = JsError(ExceptionText)

C5_Witness ==
  /\ status[2] = "done" /\ deferred[2].state = "resolved"
  /\ status[1] = "running"
  /\ callee[1] # callee[2]

\* C6: the worker owns a copy of the deserialised input taken before it is
\* queued: what Execute hands to the external function is the struct made of
\* the argument as it was at the call, whatever the caller did to its object
\* since.
C6_WorkerOwnsCopy ==
  \A i \in Ids :
    /\ Scheduled(i) => input_[i] \in InputAtCall(i)
    /\ status[i] \in {"executed", "done"} => passed[i] \in InputAtCall(i)

C6_Witness ==
  \E i \in Ids : status[i] = "executed" /\ args[i] # argAt[i]

\* C7: the handle is created before the worker is queued, stays pending until
\* Execute has finished, and is settled only by a step of the calling thread;
\* the pool thread's steps are Execute alone.
C7_SettledOnCallingThread ==
  \A i \in Ids :
    /\ Scheduled(i) =>
         /\ Pos(log[i], "Deferred::New") < Pos(log[i], "Queue")
         /\ deferred[i].created
    /\ InFlight(i) => (deferred[i].state = "pending" /\ Settlements(i) = 0)
    /\ \A k \in 1..Len(log[i]) :
         /\ log[i][k].op \in {"Resolve", "Reject"} =>
              /\ log[i][k].th = "main"
              /\ Count(log[i], {"Execute returns"}) = 1
              /\ Pos(log[i], "Execute returns") < k
         /\ log[i][k].th = "pool" => log[i][k].op \in {"Execute", "Execute returns"}

C7_Witness ==
  \E i \in Ids : status[i] = "done" /\ Count(log[i], {"Resolve"}) = 1

\* C8: while a worker is queued or running the calling thread is free: it can
\* make a synchronous call and, calls remaining, schedule another worker.
C8_CallerNeverBlocks ==
  \A i \in Ids :
    status[i] \in {"queued", "running"} =>
      /\ MainFree
      /\ ENABLED (\E a \in SyncArgs : SyncCall(a))
      /\ nextId < MaxCalls =>
           ENABLED (\E e \in AsyncExports, a \in AllArgs : AsyncCallQueue(e, a))

C8_Witness ==
  /\ status[1] = "running"
  /\ status[2] = "queued"
  /\ syncResult.outcome = "returned"

\* C9: a scheduled worker is never cancelled or timed out, and under fair
\* scheduling its Execute runs and its handle is resolved or rejected.
C9_RunsToCompletion ==
  /\ [][\A i \in Ids : InFlight(i) =>
          /\ InFlight(i)' \/ status'[i] = "done"
          /\ status[i] = "queued" => status'[i] \in {"queued", "running"}]_vars
  /\ \A i \in Ids : (status[i] = "queued") ~> (status[i] \in {"executed", "done"})
  /\ \A i \in Ids : (status[i] = "queued") ~> Settled(i)

C9_Witness ==
  \E i \in Ids : status[i] = "done" /\ Settled(i) /\ nextId = MaxCalls

\* C10: a failure raised while the input is deserialised or while the
\* external function runs is delivered as a rejection of the handle, never as
\* an uncaught fault and never as a resolution; without a failure the handle
\* is resolved with the serialised result.
C10_FailuresReject ==
  \A i \in Ids :
    /\ status[i] # "fault"
    /\ status[i] = "done" =>
         IF error_[i] = 0
           THEN deferred[i].state = "resolved" /\ deferred[i].value \in ResultFor(i)
           ELSE deferred[i].state = "rejected"

\* C11: a synchronous wrapper never lets a failure escape uncaught: with
\* argument 0 missing or no object it reports a TypeError and neither
\* deserialises nor calls the external function, and a failure thrown by
\* FromNapi or by the external function reaches the caller as a boundary-level
\* error.
C11_SyncFailuresPropagate ==
  /\ syncResult.outcome # "fault"
  /\ (syncResult.outcome # "none" /\ ~syncResult.arg.isObject) =>
       (syncResult.outcome = "TypeError" /\ syncResult.steps = << "TypeError" >>)

\* ---- helpers of the generator's claims
\* The backend identifiers a file holds at the given sites of one owner
IdsAt(name, sites, owner) ==
  IF name \in DOMAIN files
    THEN { files[name][k].id :
             k \in { i \in 1..Len(files[name]) :
                       files[name][i].site \in sites /\ files[name][i].owner = owner } }
    ELSE {}

DeclaredIds(owner) == IdsAt("generated_structs.hpp", {"member"}, owner)

WrittenIds(owner) == IdsAt("generated_structs.cpp", {"push_back", "assign"}, owner)

ReadIds(owner) ==
  IdsAt("generated_structs.cpp", {"size", "for size", "element", "Set member"}, owner)

StructsOut == { parseOutput.structs[k] : k \in 1..Len(parseOutput.structs) }

FieldsOut(struct) == { struct.fields[k] : k \in 1..Len(struct.fields) }

\* C12: within one struct emission a reserved field name is emitted with the
\* underscore at the member declaration, at the write site of FromNapi and at
\* the read sites of ToNapi; the three sites use the same identifiers, and the
\* reserved name itself is emitted at none of them.
C12_SanitizedAtEverySite ==
  runs >= 1 =>
    \A struct \in StructsOut :
      /\ WrittenIds(struct.name) \subseteq DeclaredIds(struct.name)
      /\ ReadIds(struct.name) \subseteq DeclaredIds(struct.name)
      /\ \A field \in FieldsOut(struct) :
           toLowerCase(field.name) \in cppKeywords =>
             /\ field.name \notin DeclaredIds(struct.name) \cup WrittenIds(struct.name)
                                    \cup ReadIds(struct.name)
             /\ field.name \o "_" \in DeclaredIds(struct.name)
             /\ field.type \in Handled => field.name \o "_" \in WrittenIds(struct.name)
             /\ (field.isArray \/ field.type \in Handled) =>
                  field.name \o "_" \in ReadIds(struct.name)

C12_Witness ==
  /\ runs >= 1
  /\ \E struct \in StructsOut :
       /\ "int_" \in WrittenIds(struct.name) \cap ReadIds(struct.name)
       /\ "Int_" \in WrittenIds(struct.name) \cap ReadIds(struct.name)
       /\ \E field \in FieldsOut(struct) : field.name = "int" /\ field.isArray

\* The member declarations emitted for one struct
MemberLinesOf(owner) ==
  { k \in 1..Len(files["generated_structs.hpp"]) :
      /\ files["generated_structs.hpp"][k].site = "member"
      /\ files["generated_structs.hpp"][k].owner = owner }

\* C13: the rename is free of collisions: the fields of a struct, which have
\* pairwise distinct names in the source, are declared under pairwise distinct
\* backend identifiers (so also for fields `int` and `int_`), none of which is
\* a reserved word.
C13_RenameCollisionFree ==
  runs >= 1 =>
    \A struct \in StructsOut :
      /\ Cardinality(DeclaredIds(struct.name)) = Cardinality(FieldsOut(struct))
      /\ \A k, j \in MemberLinesOf(struct.name) :
           k # j => files["generated_structs.hpp"][k].id
                      # files["generated_structs.hpp"][j].id
      /\ DeclaredIds(struct.name) \cap cppKeywords = {}

\* The properties of the marked source classes that have a type annotation
TypedProps(classDecl) ==
  { classDecl.properties[k] :
      k \in { i \in 1..Len(classDecl.properties) :
                classDecl.properties[i].typeText # "" } }

WarnedNames ==
  { parseOutput.warnings[k].field : k \in 1..Len(parseOutput.warnings) }

\* C14: a field whose name is in the keyword list is emitted as the name
\* followed by one underscore and warned about; any other name is emitted
\* unchanged and without a warning; either way the struct is extracted and all
\* files are emitted.
C14_SanitizeAppendsOneUnderscore ==
  runs >= 1 =>
    /\ MachineOwned \subseteq DOMAIN files
    /\ \A c \in 1..Len(sourceClasses) :
         "CppStruct" \in { sourceClasses[c].decorators[k] :
                             k \in 1..Len(sourceClasses[c].decorators) } =>
           /\ \E struct \in StructsOut :
                /\ struct.name = sourceClasses[c].name
                /\ { f.name : f \in FieldsOut(struct) } =
                     { p.name : p \in TypedProps(sourceClasses[c]) }
           /\ DeclaredIds(sourceClasses[c].name) =
                { IF p.name \in cppKeywords THEN p.name \o "_" ELSE p.name :
                    p \in TypedProps(sourceClasses[c]) }
           /\ WarnedNames = { p.name : p \in { q \in TypedProps(sourceClasses[c]) :
                                                  q.name \in cppKeywords } }
           /\ \A k \in 1..Len(parseOutput.warnings) :
                parseOutput.warnings[k].renamedTo = parseOutput.warnings[k].field \o "_"

\* A file's lines without those written by hand
Generated(content) == SelectSeq(content, LAMBDA l : l # UserLine)

ExportsOut == { parseOutput.exports[k] : k \in 1..Len(parseOutput.exports) }

\* The lines of generated_api.ts in which a facade entry calls the addon
FacadeCalls ==
  { k \in 1..Len(files["generated_api.ts"]) :
      files["generated_api.ts"][k].site = "addon call" }

\* The lines of generated_api.ts that open a facade entry
FacadeEntries ==
  { k \in 1..Len(files["generated_api.ts"]) :
      files["generated_api.ts"][k].site \in {"static method", "export function"} }

\* The keys under which the bridge registers its wrappers
RegisteredKeys ==
  { files["generated_api.cpp"][k].key :
      k \in { i \in 1..Len(files["generated_api.cpp"]) :
                files["generated_api.cpp"][i].site = "exports.Set" } }

\* C16: every export of the parse result has exactly one facade entry: a
\* static method of the facade class of its owning class, or a free function
\* when it has no owning class; the entry calls the addon's entry point of the
\* export's name, and every key the bridge registers is called by some entry.
C16_OneFacadeEntryPerExport ==
  runs >= 1 =>
    /\ \A e \in ExportsOut :
         /\ Cardinality({ k \in FacadeCalls :
                            /\ files["generated_api.ts"][k].owner = e.className
                            /\ files["generated_api.ts"][k].key = e.name }) = 1
         /\ Cardinality({ k \in FacadeEntries :
                            /\ files["generated_api.ts"][k].owner = e.className
                            /\ files["generated_api.ts"][k].id =
                                 (IF e.className = "" THEN e.name ELSE e.methodName) }) = 1
    /\ Cardinality(FacadeEntries) = Len(parseOutput.exports)
    /\ RegisteredKeys \subseteq { files["generated_api.ts"][k].key : k \in FacadeCalls }

\* The boundary object with every declared output field that serialises the
\* external function's result for the call's argument
FullResult(a) ==
  LET d == CHOOSE dd \in InputDataDefaults : TRUE IN
  CallerObject(OutputDataSchema,
               Solver_process(RtFromNapi(InputDataSchema, a.o, d).val))

\* C17: a call of the facade's Solver.process passes its input as the one
\* argument, an object with the keys name, value and numbers, to the entry
\* point Solver_process; when the external function returns, the caller gets
\* the object with greeting, doubled and squared that serialises its result:
\* for 'Alice' (text 1), 7, [1,2,3,4,5] that is 'Hello, Alice!' (text 31), 14,
\* [1,4,9,16,25].
C17_FacadeCallReturnsFullResult ==
  syncResult.via = "facade" =>
    /\ syncResult.entry = "Solver_process"
    /\ syncResult.argc = 1
    /\ syncResult.arg.isObject
    /\ DOMAIN syncResult.arg.o = Names(InputDataSchema)
    /\ syncResult.outcome = "returned" =>
         /\ syncResult.value = JsObject(FullResult(syncResult.arg))
         /\ DOMAIN syncResult.value.o = Names(OutputDataSchema)
         /\ syncResult.arg.o["numbers"].a
              = << BNumber(1), BNumber(2), BNumber(3), BNumber(4), BNumber(5) >> =>
              /\ syncResult.value.o["greeting"] = BString(31)
              /\ syncResult.value.o["doubled"] = BNumber(14)
              /\ syncResult.value.o["squared"].a
                   = << BNumber(1), BNumber(4), BNumber(9), BNumber(16), BNumber(25) >>

\* The boundary-call identifier of an export, from its class, its method and
\* its static modifier
Identifier(e) ==
  IF e.isStatic THEN e.className \o "_" \o e.methodName ELSE e.methodName

\* The method of the source an export was extracted from
SourceMethods(e) ==
  { m \in UNION { { sourceClasses[c].methods[k] :
                      k \in 1..Len(sourceClasses[c].methods) } :
                    c \in { i \in 1..Len(sourceClasses) :
                              sourceClasses[i].name = e.className } } :
      m.name = e.methodName }

\* The lines of a file at one site, in order
LinesAt(name, site) == SelectSeq(files[name], LAMBDA l : l.site = site)

\* The line that opens the facade entry a line of generated_api.ts is in
EntryOf(k) ==
  LET ts == files["generated_api.ts"]
      j  == CHOOSE i \in FacadeEntries :
              i < k /\ \A h \in FacadeEntries : h < k => h <= i
  IN ts[j]

\* C18: the name of every extracted export is OwningClass_methodName when its
\* method is static and the bare methodName otherwise, isStatic being the
\* method's own modifier; the extern declaration, the wrapper (with the
\* suffix _wrapper), the call in the wrapper, the key of the registration and
\* the addon call of the export's facade entry all use that identifier.
C18_OneIdentifierPerExport ==
  runs >= 1 =>
    LET exports == parseOutput.exports
        n       == Len(exports)
        ids     == [ k \in 1..n |-> Identifier(exports[k]) ]
        ts      == files["generated_api.ts"]
    IN /\ \A k \in 1..n :
            /\ exports[k].name = ids[k]
            /\ SourceMethods(exports[k]) # {}
            /\ \A m \in SourceMethods(exports[k]) : m.isStatic = exports[k].isStatic
       /\ [ k \in 1..n |-> LinesAt("generated_api.cpp", "extern")[k].id ] = ids
       /\ Len(LinesAt("generated_api.cpp", "extern")) = n
       /\ [ k \in 1..n |-> LinesAt("generated_api.cpp", "wrapper")[k].id ]
            = [ k \in 1..n |-> ids[k] \o "_wrapper" ]
       /\ [ k \in 1..n |-> LinesAt("generated_api.cpp", "call")[k].id ] = ids
       /\ [ k \in 1..n |-> LinesAt("generated_api.cpp", "exports.Set")[k].key ] = ids
       /\ [ k \in 1..n |-> LinesAt("generated_api.cpp", "exports.Set")[k].id ]
            = [ k \in 1..n |-> ids[k] \o "_wrapper" ]
       /\ \A k \in FacadeCalls :
            \E e \in ExportsOut :
              /\ e.className = EntryOf(k).owner
              /\ e.methodName = EntryOf(k).id
              /\ ts[k].key = Identifier(e)

\* A generated project with a static and a non-static export, the static one
\* with its facade entry
C18_Witness ==
  /\ runs >= 1
  /\ \E e \in ExportsOut : e.isStatic /\ e.name = "Solver_process"
  /\ \E e \in ExportsOut : ~e.isStatic /\ e.name = "run"
  /\ \E k \in FacadeCalls : files["generated_api.ts"][k].key = "Solver_process"

\* The methods of the source that carry the synchronous-export or the
\* asynchronous-export marker, each with its class
MarkedMethods ==
  UNION { { << sourceClasses[c].name, sourceClasses[c].methods[k].name >> :
              k \in { i \in 1..Len(sourceClasses[c].methods) :
                        \E d \in 1..Len(sourceClasses[c].methods[i].decorators) :
                          sourceClasses[c].methods[i].decorators[d]
                            \in {"CppExport", "CppAsync"} } } :
            c \in 1..Len(sourceClasses) }

\* C19: the parse result holds exactly one export for every method that
\* carries @CppExport or @CppAsync, and none for any other method.
C19_OneExportPerMarkedMethod ==
  runs >= 1 =>
    /\ Len(parseOutput.exports) = Cardinality(MarkedMethods)
    /\ { << e.className, e.methodName >> : e \in ExportsOut } = MarkedMethods

\* C20: whatever CppExport and CppAsync applications a method has had, at most
\* one of its synchronous and asynchronous export records exists, and
\* getAllExports lists no method twice.
C20_OneMarkerPerMethod ==
  /\ \A m \in Members :
       ~ /\ hasMetadata(metadata, EXPORT_METADATA_KEY, m[1], m[2])
         /\ hasMetadata(metadata, ASYNC_EXPORT_METADATA_KEY, m[1], m[2])
  /\ \A i, j \in 1..Len(allExports) :
       allExports[i].name = allExports[j].name => i = j

\* The class bears the struct marker
Marked(classDecl) ==
  \E k \in 1..Len(classDecl.decorators) : classDecl.decorators[k] = "CppStruct"

\* The names of the properties of a class that have a type annotation, in
\* source order
TypedNames(classDecl) ==
  LET typed == SelectSeq(classDecl.properties, LAMBDA q : q.typeText # "")
  IN [ k \in 1..Len(typed) |-> typed[k].name ]

\* The structs of the parse result, each as its name and its field names
StructShapes ==
  [ k \in 1..Len(parseOutput.structs) |->
      [name   |-> parseOutput.structs[k].name,
       fields |-> [ j \in 1..Len(parseOutput.structs[k].fields) |->
                      parseOutput.structs[k].fields[j].name ]] ]

\* C21: the parse result holds one struct for every class that bears
\* @CppStruct and none for any other class; the fields of the struct are the
\* class's properties with a type annotation, in source order; a property
\* without one is left out, nothing is printed about it and the run emits all
\* its files.
C21_StructFieldsAreTypedProps ==
  runs >= 1 =>
    /\ StructShapes =
         ConcatAll([ c \in 1..Len(sourceClasses) |->
                       IF Marked(sourceClasses[c])
                         THEN << [name   |-> sourceClasses[c].name,
                                  fields |-> TypedNames(sourceClasses[c])] >>
                         ELSE << >> ])
    /\ \A w \in 1..Len(parseOutput.warnings) :
         \E c \in 1..Len(sourceClasses) :
           \E k \in 1..Len(TypedNames(sourceClasses[c])) :
             TypedNames(sourceClasses[c])[k] = parseOutput.warnings[w].field
    /\ MachineOwned \subseteq DOMAIN files

\* The last class declaration of the given name that bears @CppStruct
LastDeclaration(name) ==
  LET cs == { c \in 1..Len(sourceClasses) :
                sourceClasses[c].name = name /\ Marked(sourceClasses[c]) }
  IN sourceClasses[CHOOSE c \in cs : \A d \in cs : d <= c]

\* C22: no two structs of a parse result have the same name; of several
\* marked classes with one name the last declaration is the one whose fields
\* the struct of that name has.
C22_StructNamesUnique ==
  runs >= 1 =>
    /\ \A i, j \in 1..Len(parseOutput.structs) :
         parseOutput.structs[i].name = parseOutput.structs[j].name => i = j
    /\ \A k \in 1..Len(StructShapes) :
         (\E c \in 1..Len(sourceClasses) :
            sourceClasses[c].name = StructShapes[k].name /\ Marked(sourceClasses[c]))
           => StructShapes[k].fields = TypedNames(LastDeclaration(StructShapes[k].name))

\* The exact-width backend type of each precision-qualified numeric kind
ExactWidth ==
  [ t \in PreciseNumericTypes |->
      CASE t = "i8"  -> "int8_t"   [] t = "u8"  -> "uint8_t"
        [] t = "i16" -> "int16_t"  [] t = "u16" -> "uint16_t"
        [] t = "i32" -> "int32_t"  [] t = "u32" -> "uint32_t"
        [] t = "i64" -> "int64_t"  [] t = "u64" -> "uint64_t"
        [] t = "f32" -> "float"    [] t = "f64" -> "double" ]

\* The extractors that read a boundary value of the Number kind
NumberExtractors ==
  { ".As<Napi::Number>()." \o m :
      m \in {"Int32Value()", "Uint32Value()", "FloatValue()", "DoubleValue()"} }

\* The types the interfaces of generated_addon.d.ts declare for one field
NativeFieldTypes(owner, key) ==
  { files["generated_addon.d.ts"][k].type :
      k \in { i \in 1..Len(files["generated_addon.d.ts"]) :
                /\ files["generated_addon.d.ts"][i].owner = owner
                /\ files["generated_addon.d.ts"][i].key = key } }

\* C23: a field declared with one of the ten precision-qualified numeric kinds
\* is stored as the exact-width backend type; its boundary kind is Number and
\* its extractor reads a Number, for all ten kinds alike, as the `number` the
\* native interface declares for the field.
C23_PreciseKindsUseNumber ==
  runs >= 1 =>
    \A c \in 1..Len(sourceClasses) :
      \A k \in 1..Len(sourceClasses[c].properties) :
        LET prop == sourceClasses[c].properties[k] IN
        (Marked(sourceClasses[c]) /\ prop.typeText \in PreciseNumericTypes) =>
          /\ \E struct \in StructsOut :
               \E field \in FieldsOut(struct) :
                 /\ struct.name = sourceClasses[c].name
                 /\ field.name = prop.name
                 /\ field.type = ExactWidth[prop.typeText]
          /\ getNapiType(prop.typeText) = "Number"
          /\ getNapiExtractor(prop.typeText) \in NumberExtractors
          /\ NativeFieldTypes(sourceClasses[c].name, prop.name) = {"number"}

\* The two array forms of a type text, each with its element type
ArrayForms ==
  { [text |-> T \o "[]", element |-> T] : T \in {"string", "number", "boolean"} }
  \cup { [text |-> "Array<" \o T \o ">", element |-> T] :
           T \in {"string", "number", "boolean"} }

\* C24: a field is an array exactly when its type text is T[] or Array<T>, and
\* then its element type is that of T; a `[]` inside the arguments of another
\* generic does not make it one; the member declaration is a vector exactly
\* when the flag is set.
C24_ArrayFromTypeText ==
  runs >= 1 =>
    \A c \in 1..Len(sourceClasses) :
      (/\ Marked(sourceClasses[c])
       /\ \A d \in 1..Len(sourceClasses) :
            sourceClasses[d].name = sourceClasses[c].name => d = c) =>
        \A k \in 1..Len(sourceClasses[c].properties) :
          LET prop  == sourceClasses[c].properties[k]
              forms == { a \in ArrayForms : a.text = prop.typeText }
          IN prop.typeText # "" =>
               \E struct \in StructsOut :
                 \E field \in FieldsOut(struct) :
                   /\ struct.name = sourceClasses[c].name
                   /\ field.name = prop.name
                   /\ field.isArray <=> forms # {}
                   /\ \A a \in forms : field.type = mapTypeScriptToCpp(a.element)
                   /\ \E i \in MemberLinesOf(struct.name) :
                        LET member == files["generated_structs.hpp"][i] IN
                        /\ member.id = sanitizeFieldName(field.name)
                        /\ member.type = (IF forms # {}
                                            THEN "std::vector<" \o field.type \o ">"
                                            ELSE field.type)

\* What a run that goes through renders for a machine-owned file
Rendering(name) ==
  generateCppCode(parseFiles(sourceClasses), NoFiles, {}).fs[name]

\* C25: a run for which a requested input file is missing or a template
\* cannot be read ends with a non-zero exit code and a message on the error
\* stream, and leaves every machine-owned file as it was or holding its
\* complete new rendering.
C25_ErrorsAbortTheRun ==
  [][ (/\ HandEdited(files') \subseteq HandEdited(files)
       /\ \/ \E k \in 1..Len(requested) : ~requested[k].exists
          \/ unreadable # {})
        => /\ lastRun'.code > 0
           /\ lastRun'.errors # << >>
           /\ \A name \in MachineOwned :
                \/ name \notin DOMAIN files' /\ name \notin DOMAIN files
                \/ name \in DOMAIN files' /\ name \in DOMAIN files
                     /\ files'[name] = files[name]
                \/ name \in DOMAIN files' /\ files'[name] = Rendering(name) ]_vars

\* The boundary keys generated_structs.cpp holds at the given sites of one
\* struct
KeysAt(sites, owner) ==
  { files["generated_structs.cpp"][k].key :
      k \in { i \in 1..Len(files["generated_structs.cpp"]) :
                /\ files["generated_structs.cpp"][i].site \in sites
                /\ files["generated_structs.cpp"][i].owner = owner } }

\* The structs of the parse result whose name no other struct has
UniqueStructs ==
  { parseOutput.structs[k] :
      k \in { i \in 1..Len(parseOutput.structs) :
                \A j \in 1..Len(parseOutput.structs) :
                  parseOutput.structs[j].name = parseOutput.structs[i].name => j = i } }

\* C26: in the emitted FromNapi and ToNapi of a struct, the key tested, the
\* key read and the key written for a field are the field's name in the
\* source, for a renamed field too: FromNapi tests the key of every field,
\* reads the key of every field it converts, ToNapi writes the key of every
\* field it converts, and no other key occurs.
C26_KeysKeepSourceNames ==
  runs >= 1 =>
    \A struct \in UniqueStructs :
      /\ KeysAt({"if Has", "if Has and IsArray"}, struct.name)
           = { f.name : f \in FieldsOut(struct) }
      /\ KeysAt({"arr", "assign"}, struct.name)
           = { f.name : f \in { g \in FieldsOut(struct) :
                                  g.isArray \/ g.type \in Handled } }
      /\ KeysAt({"Set", "Set member"}, struct.name)
           = { f.name : f \in { g \in FieldsOut(struct) :
                                  g.isArray \/ g.type \in Handled } }

\* A struct with the reserved field names `int` and `Int`, both converted:
\* declared as int_ and Int_, keyed as int and Int
C26_Witness ==
  /\ runs >= 1
  /\ \E struct \in UniqueStructs :
       /\ {"int_", "Int_"} \subseteq DeclaredIds(struct.name)
       /\ KeysAt({"if Has", "if Has and IsArray"}, struct.name) = {"int", "Int"}
       /\ KeysAt({"Set", "Set member"}, struct.name) = {"int", "Int"}
       /\ KeysAt({"arr", "assign"}, struct.name) = {"int", "Int"}

\* C27: the exports of one parse result have pairwise distinct names, so the
\* extern declarations, the wrapper functions and the registration keys of
\* generated_api.cpp are pairwise distinct too.
C27_ExportNamesUnique ==
  runs >= 1 =>
    /\ \A i, j \in 1..Len(parseOutput.exports) :
         parseOutput.exports[i].name = parseOutput.exports[j].name => i = j
    /\ \A site \in {"extern", "wrapper", "exports.Set"} :
         LET lines == LinesAt("generated_api.cpp", site) IN
         \A i, j \in 1..Len(lines) :
           (lines[i].id = lines[j].id \/ (site = "exports.Set" /\ lines[i].key = lines[j].key))
             => i = j

\* The arguments a facade entry passes to the addon when it is called as
\* declared: its converted input object, or nothing
DeclaredCall(k) ==
  IF files["generated_api.ts"][k].type = "()"
    THEN << >>
    ELSE << Arg([ n \in {"name"} |-> BString(1) ]) >>

\* The emitted wrapper of an export tests `info.Length() < 1 ||
\* !info[0].IsObject()` and throws TypeError
ValidatesObject(name) ==
  \E i \in 1..Len(files["generated_api.cpp"]) :
    /\ files["generated_api.cpp"][i].site = "if no object"
    /\ files["generated_api.cpp"][i].owner = name

\* C28: every call a facade entry makes in its declared form passes the
\* argument validation of the wrapper it calls: one object for an export with
\* a parameter, no argument for an export without parameters.
C28_FacadeCallsAreAccepted ==
  runs >= 1 =>
    \A k \in FacadeCalls :
      LET called == files["generated_api.ts"][k].key IN
      /\ called \in RegisteredKeys
      /\ ValidatesObject(called) => Info0(DeclaredCall(k)).isObject

\* C29: an asynchronous call whose argument 0 is missing or no object throws
\* TypeError on the calling thread and does nothing else, then or later: no
\* Promise is made, no worker is constructed or queued, nothing is handed to
\* the external function.
C29_AsyncTypeErrorOnly ==
  \A i \in Ids :
    (status[i] # "unused" /\ ~argAt[i].isObject) =>
      /\ status[i] = "typeerror"
      /\ log[i] = By("main", << "TypeError" >>)
      /\ deferred[i] = NoDeferred
      /\ input_[i] = Unset
      /\ passed[i] = Unset
      /\ result_[i] = Unset
      /\ mainWaiting # i

\* A rejected call, after which another call has run to its end
C29_Witness ==
  /\ status[1] = "typeerror"
  /\ status[2] = "done"
  /\ deferred[2].state = "resolved"

\* The list has an entry for that method with that isAsync flag
Listed(list, propertyKey, isAsync) ==
  \E k \in 1..Len(list) :
    list[k].name = propertyKey /\ list[k].isAsync = isAsync

\* C30: when getAllExports has listed the class as it is now, every method,
\* static or instance, that CppExport was applied to has an entry with isAsync
\* false, every method CppAsync was applied to has one with isAsync true, and
\* a method that carries no marker has no entry.
C30_ListedIffMarked ==
  allExports = getAllExports(metadata) =>
    \A m \in Members :
      /\ hasMetadata(metadata, EXPORT_METADATA_KEY, m[1], m[2])
           => Listed(allExports, m[2], FALSE)
      /\ hasMetadata(metadata, ASYNC_EXPORT_METADATA_KEY, m[1], m[2])
           => Listed(allExports, m[2], TRUE)
      /\ ( /\ ~hasMetadata(metadata, EXPORT_METADATA_KEY, m[1], m[2])
           /\ ~hasMetadata(metadata, ASYNC_EXPORT_METADATA_KEY, m[1], m[2]) )
           => \A k \in 1..Len(allExports) : allExports[k].name # m[2]

====
